---- MODULE Spec2Model ----
(***************************************************************************)
(* Verification model of the parking video-analytics repository:           *)
(*   - TrackedVehicle / AutomaticParkingDetector (src/automatic_detector.py)*)
(*   - VehicleTracker / StabilityFilter / TrackingManager                   *)
(*     (src/smart_parking_mvp/tracker.py)                                   *)
(*   - ParkingSlot / SmartParkingMVP.update_occupancy                       *)
(*     (src/smart_parking_mvp/smart_parking_mvp.py)                         *)
(*                                                                         *)
(* Time is the wall clock in whole seconds.  The several datetime.now() /  *)
(* time.time() reads made inside one call are microseconds apart and are   *)
(* modelled as one reading of the clock.                                   *)
(***************************************************************************)
EXTENDS Integers, Sequences, FiniteSets, TLC

VARIABLES
    program,            \* which of the repository's programs is running
    clock,              \* wall clock (seconds)
    tracked_vehicles,   \* AutomaticParkingDetector.tracked_vehicles: id -> TrackedVehicle
    evals,              \* log of the check_if_parked evaluations made so far
    tm,                 \* the TrackingManager with its StabilityFilter
    scene,              \* what the external detector currently reports, per identifier
    changes,            \* number of times the scene has changed so far
    accepted,           \* identifiers that passed the stability filter in the last frame
    missed,             \* per identifier: consecutive frames, up to the last one, in
                        \* which a once tracked identifier was not accepted
    gap,                \* per identifier: the value of missed when it was last accepted
    mvp,                \* the SmartParkingMVP: its ParkingSlots and frame counter
    obs,                \* per slot: what update_occupancy saw in the last two frames
    sfilter,            \* a StabilityFilter on its own: its detection_history
    sflog,              \* what the last filter_detections call was given and passed on
    suppressor,         \* a remove_duplicate_detections call: arguments and results
    iou_call,           \* a calculate_iou call: arguments and results
    call,               \* a call of one of the other functions: arguments and result
    apd                 \* the AutomaticParkingDetector: parking zone, tracker, last result

tvVars == <<tracked_vehicles, evals>>

tmVars == <<tm, scene, changes, accepted, missed, gap>>

mvpVars == <<mvp, obs>>

sfVars == <<sfilter, sflog>>

vars == <<program, clock, tracked_vehicles, evals, tm, scene, changes, accepted, missed,
         gap, mvp, obs, sfilter, sflog, suppressor, iou_call, call, apd>>

fnVars == <<suppressor, iou_call>>

extVars == <<call, apd>>

\* no AutomaticParkingDetector has been built, no other function has been called
ExtIdle == call = << >> /\ apd = << >>

\* the StabilityFilter runs have not been started, no function has been called
SFIdle ==
    /\ sfilter = << >> /\ sflog = << >> /\ suppressor = << >> /\ iou_call = << >>
    /\ ExtIdle

----------------------------------------------------------------------------
(* Nullable values: None is the empty tuple, a value v is <<v>>.           *)

None == <<>>

Some(v) == <<v>>

Val(o) == o[1]

----------------------------------------------------------------------------
(* Bounds of the exploration.                                              *)

\* the clock stops advancing here
MaxClock == 15

\* a vehicle changes its position at most this many times
MaxMoves == 1

\* at most this many frames arrive two seconds (instead of one) after the previous one
MaxGaps == 1

\* seconds between two processed frames
FrameGaps == {1, 2}

\* the clock reading at construction of the detector
StartClock == 1

\* identifiers the external tracker hands out in the single-vehicle runs
TrackerIds == {1}

\* bounding boxes reported for the vehicle: 100x100 boxes shifted along x
BBoxes == { <<100 + dx, 100, 200 + dx, 200>> : dx \in {0, 45, 90} }

----------------------------------------------------------------------------
(* TrackedVehicle (src/automatic_detector.py)                              *)

\* deque(maxlen=150) of (center, timestamp)
PositionsMaxLen == 150

\* minimum number of samples for a speed estimate
MinSamples == 5

\* trailing window of the speed estimate, seconds
SpeedWindow == 5

\* total positional variance below which the speed is forced to zero
VarianceFloor == 100

\* hysteresis: speed above which a parked vehicle may un-park (px/s)
ExitSpeed == 15

\* hysteresis: seconds after which a parked vehicle may un-park
ExitDuration == 3

\* defaults of check_if_parked / classify_parking_status
DefaultSpeedThreshold == 8

DefaultTimeThreshold == 5

get_center(bbox) == << (bbox[1] + bbox[3]) \div 2, (bbox[2] + bbox[4]) \div 2 >>

\* deque.append with maxlen: the oldest element is dropped on overflow
DequeAppend(q, e, maxlen) ==
    IF Len(q) >= maxlen THEN Append(Tail(q), e) ELSE Append(q, e)

RECURSIVE SumSeq(_)
SumSeq(s) == IF s = <<>> THEN 0 ELSE Head(s) + SumSeq(Tail(s))

\* n^2 * np.var(xs): n * sum(x^2) - (sum x)^2
ScaledVar(xs) ==
    LET n == Len(xs)
        s1 == SumSeq(xs)
        s2 == SumSeq([i \in 1..n |-> xs[i] * xs[i]])
    IN  n * s2 - s1 * s1

\* NewTrackedVehicle with is_parked set from the start.
NewTrackedVehicle_BornParked(id, bbox, now) ==
    [ tracker_id          |-> id,
      bbox                |-> bbox,
      first_seen          |-> now,
      last_seen           |-> now,
      positions           |-> << [pos |-> get_center(bbox), t |-> now] >>,
      is_parked           |-> TRUE,
      parked_stable_since |-> None,
      stationary_since    |-> None ]

\* TrackedVehicle.__init__ / __post_init__
NewTrackedVehicle(id, bbox, now) ==
    [ tracker_id          |-> id,
      bbox                |-> bbox,
      first_seen          |-> now,
      last_seen           |-> now,
      positions           |-> << [pos |-> get_center(bbox), t |-> now] >>,
      is_parked           |-> FALSE,
      parked_stable_since |-> None,
      stationary_since    |-> None ]

\* TrackedVehicle.update
TV_update(v, bbox, now) ==
    [ v EXCEPT !.bbox = bbox,
               !.last_seen = now,
               !.positions = DequeAppend(v.positions,
                                         [pos |-> get_center(bbox), t |-> now],
                                         PositionsMaxLen) ]

\* A speed is kept as the pair (squared distance, time span): d2 / ts^2 is
\* its square.  The speed 0.0 is d2 = 0, ts = 1.
ZeroSpeed == [d2 |-> 0, ts |-> 1]

SpeedLT(sp, k) == sp.d2 < k * k * sp.ts * sp.ts

SpeedGT(sp, k) == sp.d2 > k * k * sp.ts * sp.ts

\* the samples of the trailing window
RecentPositions(v, now) ==
    SelectSeq(v.positions, LAMBDA e : now - e.t <= SpeedWindow)

\* TrackedVehicle.get_speed_pixels_per_second
get_speed_pixels_per_second(v, now) ==
    IF Len(v.positions) < MinSamples THEN ZeroSpeed
    ELSE
      LET recent == RecentPositions(v, now)
          n      == Len(recent)
      IN
      IF n < MinSamples THEN ZeroSpeed
      ELSE
        LET xs == [i \in 1..n |-> recent[i].pos[1]]
            ys == [i \in 1..n |-> recent[i].pos[2]]
            dx == recent[n].pos[1] - recent[1].pos[1]
            dy == recent[n].pos[2] - recent[1].pos[2]
            ts == recent[n].t - recent[1].t
        IN
        IF ScaledVar(xs) + ScaledVar(ys) < VarianceFloor * n * n THEN ZeroSpeed
        ELSE IF ts = 0 THEN ZeroSpeed
        ELSE [d2 |-> dx * dx + dy * dy, ts |-> ts]

\* TrackedVehicle.get_stationary_duration
get_stationary_duration(v, now) ==
    IF v.stationary_since /= None THEN now - Val(v.stationary_since) ELSE 0

\* ShouldUnpark without hysteresis: the entry threshold is used to leave too.
ShouldUnpark_EntryThreshold(v, speed, now) ==
    /\ SpeedGT(speed, DefaultSpeedThreshold)
    /\ v.parked_stable_since /= None
    /\ now - Val(v.parked_stable_since) > ExitDuration

\* The exit test of the PARKED branch of check_if_parked.
ShouldUnpark(v, speed, now) ==
    /\ SpeedGT(speed, ExitSpeed)
    /\ v.parked_stable_since /= None
    /\ now - Val(v.parked_stable_since) > ExitDuration

\* StationaryLongEnough with a strict comparison.
StationaryLongEnough_Strict(duration, time_threshold) == duration > time_threshold

\* The entry test of the not-parked branch of check_if_parked.
StationaryLongEnough(duration, time_threshold) == duration >= time_threshold

\* ResetStationaryTimer that leaves a running timer alone.
ResetStationaryTimer_Keep(v) == v

\* The "moving" branch of check_if_parked: the stationary timer is reset.
ResetStationaryTimer(v) == [v EXCEPT !.stationary_since = None]

\* check_if_parked without the early return for short histories.
check_if_parked_NoMinimum(v, speed_threshold, time_threshold, now) ==
    LET speed == get_speed_pixels_per_second(v, now) IN
    IF v.is_parked THEN
      IF ShouldUnpark(v, speed, now)
      THEN [ v   |-> [v EXCEPT !.is_parked = FALSE,
                               !.stationary_since = None,
                               !.parked_stable_since = None],
             ret |-> FALSE ]
      ELSE [v |-> v, ret |-> TRUE]
    ELSE IF ~ SpeedLT(speed, speed_threshold) THEN
      [v |-> ResetStationaryTimer(v), ret |-> FALSE]
    ELSE
      LET v1 == IF v.stationary_since = None
                THEN [v EXCEPT !.stationary_since = Some(now)]
                ELSE v
      IN
      IF StationaryLongEnough(get_stationary_duration(v1, now), time_threshold)
      THEN [ v   |-> [v1 EXCEPT !.is_parked = TRUE,
                                !.parked_stable_since = Some(now)],
             ret |-> TRUE ]
      ELSE [v |-> v1, ret |-> FALSE]

\* TrackedVehicle.check_if_parked: the vehicle after the call and the value
\* returned.
check_if_parked(v, speed_threshold, time_threshold, now) ==
    IF Len(v.positions) < MinSamples THEN [v |-> v, ret |-> v.is_parked]
    ELSE
      LET speed == get_speed_pixels_per_second(v, now) IN
      IF v.is_parked THEN
        IF ShouldUnpark(v, speed, now)
        THEN [ v   |-> [v EXCEPT !.is_parked = FALSE,
                                 !.stationary_since = None,
                                 !.parked_stable_since = None],
               ret |-> FALSE ]
        ELSE [v |-> v, ret |-> TRUE]
      ELSE IF ~ SpeedLT(speed, speed_threshold) THEN
        [v |-> ResetStationaryTimer(v), ret |-> FALSE]
      ELSE
        LET v1 == IF v.stationary_since = None
                  THEN [v EXCEPT !.stationary_since = Some(now)]
                  ELSE v
        IN
        IF StationaryLongEnough(get_stationary_duration(v1, now), time_threshold)
        THEN [ v   |-> [v1 EXCEPT !.is_parked = TRUE,
                                  !.parked_stable_since = Some(now)],
               ret |-> TRUE ]
        ELSE [v |-> v1, ret |-> FALSE]

\* One entry of the evaluation log: what check_if_parked saw and returned.
EvalRecord(v, res, speed_threshold, time_threshold, now) ==
    [ id        |-> v.tracker_id,
      t         |-> now,
      samples   |-> Len(v.positions),
      measured  |-> Len(v.positions) >= MinSamples,
      speed     |-> get_speed_pixels_per_second(v, now),
      S         |-> speed_threshold,
      T         |-> time_threshold,
      wasParked |-> v.is_parked,
      ret       |-> res.ret ]

\* number of position changes in a history
NumMoves(positions) ==
    Cardinality({ i \in 1..(Len(positions) - 1) :
                      positions[i].pos /= positions[i + 1].pos })

\* number of two-second gaps in a history
NumGaps(positions) ==
    Cardinality({ i \in 1..(Len(positions) - 1) :
                      positions[i + 1].t - positions[i].t > 1 })

\* AutomaticParkingDetector.update_tracking for one tracked detection:
\* update the known vehicle or create it.
update_tracking(tvs, id, bbox, now) ==
    IF id \in DOMAIN tvs
    THEN [tvs EXCEPT ![id] = TV_update(tvs[id], bbox, now)]
    ELSE [i \in DOMAIN tvs \cup {id} |->
              IF i = id THEN NewTrackedVehicle(id, bbox, now) ELSE tvs[i]]

\* AutomaticParkingDetector.process_frame on a frame in which the external
\* tracker reports vehicle id at bbox: update_tracking, then
\* classify_parking_status with the default thresholds (no parking zone).
ProcessFrame(id, bbox, dt) ==
    LET now  == clock + dt
        tvs1 == update_tracking(tracked_vehicles, id, bbox, now)
        v1   == tvs1[id]
        res  == check_if_parked(v1, DefaultSpeedThreshold, DefaultTimeThreshold, now)
    IN
    /\ program = "automatic_detector"
    /\ now <= MaxClock
    /\ NumMoves(v1.positions) <= MaxMoves
    /\ NumGaps(v1.positions) <= MaxGaps
    /\ clock' = now
    /\ tracked_vehicles' = [tvs1 EXCEPT ![id] = res.v]
    /\ evals' = Append(evals, EvalRecord(v1, res, DefaultSpeedThreshold,
                                         DefaultTimeThreshold, now))
    /\ UNCHANGED <<program, extVars, tmVars, mvpVars, sfVars, fnVars>>

TVInit ==
    /\ program = "automatic_detector"
    /\ clock = StartClock
    /\ tracked_vehicles = << >>
    /\ evals = << >>
    /\ tm = << >>
    /\ scene = << >>
    /\ changes = 0
    /\ accepted = {}
    /\ missed = << >>
    /\ gap = << >>
    /\ mvp = << >>
    /\ obs = << >>
    /\ SFIdle

TVNext ==
    \E id \in TrackerIds, bbox \in BBoxes, dt \in FrameGaps :
        ProcessFrame(id, bbox, dt)

\* the single-vehicle runs of the automatic detector
SpecTV == TVInit /\ [][TVNext]_vars


----------------------------------------------------------------------------
(* VehicleTracker, StabilityFilter, TrackingManager                        *)
(* (src/smart_parking_mvp/tracker.py, src/smart_parking_mvp/config.py)     *)
(* Confidences are in percent.  A detection is [track_id, confidence,      *)
(* center]; bbox and class are carried along by the code but never read by *)
(* the tracking logic.                                                     *)

MAX_TRACKED_VEHICLES == 30

TRACK_HISTORY_LENGTH == 60

\* MOTION_THRESHOLD = 5.0 pixels
MOTION_THRESHOLD == 5

STATIONARY_FRAMES == 15

MOVING_FRAMES == 3

\* TrackingManager.max_lost_frames
max_lost_frames == 30

\* StabilityFilter(history_length = 5, min_consistent_frames = 3)
history_length == 5

min_consistent_frames == 3

\* confidence above which a brand-new identifier is accepted at once (0.6)
NewTrackConfidence == 60

\* floor of the average confidence of a consistent identifier (0.35)
AvgConfidenceFloor == 35

\* VehicleTracker.confidence_history = deque(maxlen=5)
ConfidenceHistoryLen == 5

\* the confidence 1.0 a new VehicleTracker starts with
FullConfidence == 100

\* integer square root
ISqrt(n) == CHOOSE r \in 0..n : r * r <= n /\ (r + 1) * (r + 1) > n

\* squared Euclidean distance of two positions
Dist2(p, q) == (q[1] - p[1]) * (q[1] - p[1]) + (q[2] - p[2]) * (q[2] - p[2])

\* VehicleTracker._calculate_distance (exact for the axis-parallel moves modelled)
calculate_distance(p, q) == ISqrt(Dist2(p, q))

\* VehicleTracker.__init__
NewVehicleTracker(track_id, position, now) ==
    [ track_id                      |-> track_id,
      positions                     |-> << position >>,
      is_moving                     |-> FALSE,
      consecutive_moving_frames     |-> 0,
      consecutive_stationary_frames |-> 0,
      status                        |-> "MOVING",
      occluded                      |-> FALSE,
      confidence_history            |-> << FullConfidence >>,
      stationary_start_time         |-> None,
      park_duration                 |-> 0,
      first_seen                    |-> now,
      last_seen                     |-> now,
      total_frames                  |-> 1,
      total_distance                |-> 0,
      current_position              |-> position,
      current_confidence            |-> FullConfidence,
      lost_frames                   |-> 0 ]

\* _update_motion_state that follows the last displacement at once.
update_motion_state_NoHysteresis(t, distance, now) ==
    IF distance >= MOTION_THRESHOLD THEN
      [t EXCEPT !.consecutive_moving_frames = t.consecutive_moving_frames + 1,
                !.consecutive_stationary_frames = 0,
                !.is_moving = TRUE,
                !.status = "MOVING",
                !.stationary_start_time = None]
    ELSE
      [t EXCEPT !.consecutive_stationary_frames = t.consecutive_stationary_frames + 1,
                !.consecutive_moving_frames = 0,
                !.is_moving = FALSE,
                !.stationary_start_time =
                    IF t.stationary_start_time = None
                    THEN Some(now) ELSE t.stationary_start_time]

\* VehicleTracker._update_motion_state
update_motion_state(t, distance, now) ==
    IF distance >= MOTION_THRESHOLD THEN
      LET cm == t.consecutive_moving_frames + 1
          t1 == [t EXCEPT !.consecutive_moving_frames = cm,
                          !.consecutive_stationary_frames = 0]
      IN  IF cm >= MOVING_FRAMES
          THEN [t1 EXCEPT !.is_moving = TRUE,
                          !.status = "MOVING",
                          !.stationary_start_time = None]
          ELSE t1
    ELSE
      LET cs == t.consecutive_stationary_frames + 1
          t1 == [t EXCEPT !.consecutive_stationary_frames = cs,
                          !.consecutive_moving_frames = 0]
      IN  IF cs >= STATIONARY_FRAMES
          THEN [t1 EXCEPT !.is_moving = FALSE,
                          !.stationary_start_time =
                              IF t.stationary_start_time = None
                              THEN Some(now) ELSE t.stationary_start_time]
          ELSE t1

\* _update_parking_status that calls a track parked as soon as its timer runs.
update_parking_status_ParkedAtOnce(t, now) ==
    IF t.is_moving THEN [t EXCEPT !.status = "MOVING", !.park_duration = 0]
    ELSE IF t.stationary_start_time /= None THEN
      [t EXCEPT !.park_duration = now - Val(t.stationary_start_time),
                !.status = "PARKED"]
    ELSE [t EXCEPT !.status = "STOPPED", !.park_duration = 0]

\* VehicleTracker._update_parking_status; "parked after 1.5 seconds" on the
\* whole-second clock is 2 * park_duration >= 3
update_parking_status(t, now) ==
    IF t.is_moving THEN [t EXCEPT !.status = "MOVING", !.park_duration = 0]
    ELSE IF t.stationary_start_time /= None THEN
      LET d == now - Val(t.stationary_start_time) IN
      [t EXCEPT !.park_duration = d,
                !.status = IF 2 * d >= 3 THEN "PARKED" ELSE "STOPPED"]
    ELSE [t EXCEPT !.status = "STOPPED", !.park_duration = 0]

\* VehicleTracker.update that leaves the occluded flag as it is.
VT_update_KeepsOccluded(t, position, confidence, now) ==
    LET t1 == [t EXCEPT !.positions = DequeAppend(t.positions, position,
                                                   TRACK_HISTORY_LENGTH),
                        !.confidence_history =
                            DequeAppend(t.confidence_history, confidence,
                                        ConfidenceHistoryLen)]
        n  == Len(t1.positions)
        t2 == IF n >= 2
              THEN LET distance == calculate_distance(t1.positions[n - 1], position)
                   IN  update_motion_state(
                           [t1 EXCEPT !.total_distance = t1.total_distance + distance],
                           distance, now)
              ELSE t1
        t3 == [t2 EXCEPT !.current_position = position,
                         !.current_confidence = confidence,
                         !.last_seen = now,
                         !.total_frames = t2.total_frames + 1,
                         !.lost_frames = 0]
    IN  update_parking_status(t3, now)

\* VehicleTracker.update
VT_update(t, position, confidence, now) ==
    LET t1 == [t EXCEPT !.positions = DequeAppend(t.positions, position,
                                                   TRACK_HISTORY_LENGTH),
                        !.confidence_history =
                            DequeAppend(t.confidence_history, confidence,
                                        ConfidenceHistoryLen)]
        n  == Len(t1.positions)
        t2 == IF n >= 2
              THEN LET distance == calculate_distance(t1.positions[n - 1], position)
                   IN  update_motion_state(
                           [t1 EXCEPT !.total_distance = t1.total_distance + distance],
                           distance, now)
              ELSE t1
        t3 == [t2 EXCEPT !.current_position = position,
                         !.current_confidence = confidence,
                         !.last_seen = now,
                         !.total_frames = t2.total_frames + 1,
                         !.lost_frames = 0,
                         !.occluded = FALSE]
    IN  update_parking_status(t3, now)

\* a function with one key added or overwritten
MapPut(f, k, v) == (k :> v) @@ f

\* a function with one key removed
MapDel(f, k) == [x \in DOMAIN f \ {k} |-> f[x]] @@ << >>

\* IsStable that takes a first detection from confidence 0.6 on.
IsStable_FromSixty(history, confidence) ==
    \/ Len(history) = 1 /\ confidence >= NewTrackConfidence
    \/ /\ Len(history) >= min_consistent_frames
       /\ SumSeq(history) > AvgConfidenceFloor * Len(history)

\* the acceptance test of StabilityFilter.filter_detections for a detection
\* whose confidence has just been appended to history
IsStable(history, confidence) ==
    \/ Len(history) = 1 /\ confidence > NewTrackConfidence
    \/ /\ ~ (Len(history) = 1 /\ confidence > NewTrackConfidence)
       /\ Len(history) >= min_consistent_frames
       /\ SumSeq(history) > AvgConfidenceFloor * Len(history)

\* one round of the loop of StabilityFilter.filter_detections: acc holds the
\* histories and the detections passed on so far
FilterOne(acc, det) ==
    LET id == det.track_id
        h0 == IF id \in DOMAIN acc.hist THEN acc.hist[id] ELSE << >>
        h1 == DequeAppend(h0, det.confidence, history_length)
    IN  [ hist   |-> MapPut(acc.hist, id, h1),
          stable |-> IF IsStable(h1, det.confidence)
                     THEN Append(acc.stable, det) ELSE acc.stable ]

\* the rounds lo..hi of the loop of StabilityFilter.filter_detections, in
\* order; the range is halved, and the first half worked out before the
\* second is entered, to keep the evaluation shallow
RECURSIVE FilterLoop(_, _, _, _)
FilterLoop(acc, dets, lo, hi) ==
    IF lo > hi THEN acc
    ELSE IF lo = hi THEN FilterOne(acc, dets[lo])
    ELSE LET mid   == (lo + hi) \div 2
             first == FilterLoop(acc, dets, lo, mid)
         IN  IF Len(first.stable) >= 0
             THEN FilterLoop(first, dets, mid + 1, hi) ELSE first

\* StabilityFilter.filter_detections: the detections passed on and the
\* detection history afterwards (histories of absent identifiers are
\* dropped once they are full)
filter_detections(hist, dets) ==
    LET r       == FilterLoop([hist |-> hist, stable |-> << >>], dets, 1, Len(dets))
        current == { dets[i].track_id : i \in 1..Len(dets) }
        keep    == { id \in DOMAIN r.hist :
                        id \in current \/ Len(r.hist[id]) < history_length }
    IN  [ hist |-> [id \in keep |-> r.hist[id]] @@ << >>, stable |-> r.stable ]

\* TrackingManager.__init__
NewTrackingManager ==
    [ active_tracks     |-> << >>,
      lost_tracks       |-> << >>,
      current_frame     |-> 0,
      total_tracked     |-> 0,
      total_lost        |-> 0,
      detection_history |-> << >> ]

\* UpdateOne that creates a tracker whatever the number of active tracks.
UpdateOne_NoCap(m, det, now) ==
    LET id == det.track_id
        m1 == IF id \in DOMAIN m.lost_tracks
              THEN [m EXCEPT !.active_tracks =
                                 MapPut(m.active_tracks, id, m.lost_tracks[id].tracker),
                             !.lost_tracks = MapDel(m.lost_tracks, id)]
              ELSE m
    IN  IF id \in DOMAIN m1.active_tracks
        THEN [m1 EXCEPT !.active_tracks[id] =
                            VT_update(m1.active_tracks[id], det.center,
                                      det.confidence, now)]
        ELSE [m1 EXCEPT !.active_tracks =
                            MapPut(m1.active_tracks, id,
                                   NewVehicleTracker(id, det.center, now)),
                        !.total_tracked = m1.total_tracked + 1]

\* the body of the detection loop of update_trackers for one detection
UpdateOne(m, det, now) ==
    LET id == det.track_id
        m1 == IF id \in DOMAIN m.lost_tracks
              THEN [m EXCEPT !.active_tracks =
                                 MapPut(m.active_tracks, id, m.lost_tracks[id].tracker),
                             !.lost_tracks = MapDel(m.lost_tracks, id)]
              ELSE m
    IN  IF id \in DOMAIN m1.active_tracks
        THEN [m1 EXCEPT !.active_tracks[id] =
                            VT_update(m1.active_tracks[id], det.center,
                                      det.confidence, now)]
        ELSE IF Cardinality(DOMAIN m1.active_tracks) < MAX_TRACKED_VEHICLES
        THEN [m1 EXCEPT !.active_tracks =
                            MapPut(m1.active_tracks, id,
                                   NewVehicleTracker(id, det.center, now)),
                        !.total_tracked = m1.total_tracked + 1]
        ELSE m1

\* the rounds lo..hi of the detection loop of update_trackers, in order;
\* the range is halved, and the first half worked out before the second is
\* entered, to keep the evaluation shallow
RECURSIVE UpdateLoop(_, _, _, _, _)
UpdateLoop(m, stable, lo, hi, now) ==
    IF lo > hi THEN m
    ELSE IF lo = hi THEN UpdateOne(m, stable[lo], now)
    ELSE LET mid   == (lo + hi) \div 2
             first == UpdateLoop(m, stable, lo, mid, now)
         IN  IF first.total_tracked >= 0
             THEN UpdateLoop(first, stable, mid + 1, hi, now) ELSE first

\* MoveMissing that puts the track aside without tagging it.
MoveMissing_Untagged(m, current_ids) ==
    LET gone == DOMAIN m.active_tracks \ current_ids IN
    [m EXCEPT !.active_tracks = [id \in DOMAIN m.active_tracks \ gone |->
                                     m.active_tracks[id]],
              !.lost_tracks = [id \in DOMAIN m.lost_tracks \cup gone |->
                  IF id \in gone
                  THEN [ lost_frame |-> m.current_frame,
                         tracker    |-> m.active_tracks[id] ]
                  ELSE m.lost_tracks[id]]]

\* "move missing tracks to lost_tracks"
MoveMissing(m, current_ids) ==
    LET gone == DOMAIN m.active_tracks \ current_ids IN
    [m EXCEPT !.active_tracks = [id \in DOMAIN m.active_tracks \ gone |->
                                     m.active_tracks[id]],
              !.lost_tracks = [id \in DOMAIN m.lost_tracks \cup gone |->
                  IF id \in gone
                  THEN [ lost_frame |-> m.current_frame,
                         tracker    |-> [m.active_tracks[id] EXCEPT !.occluded = TRUE] ]
                  ELSE m.lost_tracks[id]]]

\* Expired that evicts a track in the frame in which it goes missing.
Expired_AtOnce(current_frame, lost_frame) == current_frame - lost_frame >= 0

\* the eviction test of "clean up very old lost tracks"
Expired(current_frame, lost_frame) == current_frame - lost_frame > max_lost_frames

\* CleanUp that evicts without counting.
CleanUp_Uncounted(m) ==
    LET old == { id \in DOMAIN m.lost_tracks :
                    Expired(m.current_frame, m.lost_tracks[id].lost_frame) }
    IN  [m EXCEPT !.lost_tracks = [id \in DOMAIN m.lost_tracks \ old |->
                                       m.lost_tracks[id]]]

\* "clean up very old lost tracks"
CleanUp(m) ==
    LET old == { id \in DOMAIN m.lost_tracks :
                    Expired(m.current_frame, m.lost_tracks[id].lost_frame) }
    IN  [m EXCEPT !.lost_tracks = [id \in DOMAIN m.lost_tracks \ old |->
                                       m.lost_tracks[id]],
                  !.total_lost = m.total_lost + Cardinality(old)]

\* frames a lost track is still shown by get_all_trackers
ShownLostFrames == 10

\* TrackingManager.get_tracker: the tracker of an identifier, active or lost
get_tracker(m, track_id) ==
    IF track_id \in DOMAIN m.active_tracks THEN Some(m.active_tracks[track_id])
    ELSE IF track_id \in DOMAIN m.lost_tracks THEN Some(m.lost_tracks[track_id].tracker)
    ELSE None

\* TrackingManager.get_all_trackers: active tracks and recently lost ones
get_all_trackers(m) ==
    LET shown == { id \in DOMAIN m.lost_tracks :
                      m.current_frame - m.lost_tracks[id].lost_frame <= ShownLostFrames }
    IN  [id \in DOMAIN m.active_tracks \cup shown |->
            IF id \in shown THEN m.lost_tracks[id].tracker ELSE m.active_tracks[id]]

\* the identifiers the stability filter lets through for these detections
AcceptedIds(m, detections) ==
    LET f == filter_detections(m.detection_history, detections)
    IN  { f.stable[i].track_id : i \in 1..Len(f.stable) }

\* TrackingManager.update_trackers(detections) with frame_number = None
update_trackers(m, detections, now) ==
    LET f  == filter_detections(m.detection_history, detections)
        m0 == [m EXCEPT !.current_frame = m.current_frame + 1,
                        !.detection_history = f.hist]
        m1 == UpdateLoop(m0, f.stable, 1, Len(f.stable), now)
        m2 == MoveMissing(m1, { f.stable[i].track_id : i \in 1..Len(f.stable) })
    IN  CleanUp(m2)

(* The tracker runs: the scene the detector looks at.                      *)

\* update_trackers is called at most this many times
MaxFrame == 35

\* the scene changes at most this many times
MaxChanges == 2

\* identifiers ByteTrack hands out in the tracker runs
TMIds == {1}

\* detection confidences (percent) in the tracker runs
Confidences == {50, 90}

\* pixels a visible vehicle moves per frame in the tracker runs
Steps == {0, 10}

\* seconds between two frames in the tracker runs
TMFrameGaps == {1}

\* x coordinate of every vehicle when the run starts
StartX == 100

\* how the detector may report an identifier that comes into view
Appearances == [ visible : {TRUE}, confidence : Confidences, step : Steps ]

\* how an identifier that is out of view may be moving
Hidden == [ visible : {FALSE}, confidence : {0}, step : Steps ]

\* the scene a frame later: every visible vehicle has moved by its step
Advance(sc) ==
    [id \in DOMAIN sc |->
        IF sc[id].visible THEN [sc[id] EXCEPT !.x = sc[id].x + sc[id].step] ELSE sc[id]]

\* the scene with identifier id coming into view, detected with confidence c
Show(sc, id, c) == [sc EXCEPT ![id].visible = TRUE, ![id].confidence = c]

\* the scene with identifier id going out of view
Hide(sc, id) == [sc EXCEPT ![id].visible = FALSE, ![id].confidence = 0]

\* the elements of a set of numbers in increasing order
SetToSeq(S) ==
    [ i \in 1..Cardinality(S) |->
        CHOOSE x \in S : Cardinality({ y \in S : y < x }) = i - 1 ]

\* the detections of a frame (detector._parse_results): one per visible
\* identifier, in identifier order
Detections(sc) ==
    LET ids == SetToSeq({ id \in DOMAIN sc : sc[id].visible }) IN
    [ i \in 1..Len(ids) |->
        [ track_id   |-> ids[i],
          confidence |-> sc[ids[i]].confidence,
          center     |-> << sc[ids[i]].x, 150 >> ] ]

\* identifiers that have or had a track
EverTracked(m, miss) ==
    DOMAIN m.active_tracks \cup DOMAIN m.lost_tracks \cup { id \in DOMAIN miss : miss[id] > 0 }

\* VehicleDetector.detect on the next frame: the detections of scene sc go
\* through TrackingManager.update_trackers
TMFrameWith(sc, dt) ==
    LET dets == Detections(sc)
        now  == clock + dt
        acc  == AcceptedIds(tm, dets)
        tm2  == update_trackers(tm, dets, now)
    IN
    /\ tm.current_frame < MaxFrame
    /\ clock' = now
    /\ scene' = sc
    /\ tm' = tm2
    /\ accepted' = acc
    /\ missed' = [id \in TMIds |->
                    IF id \in acc THEN 0
                    ELSE IF id \in EverTracked(tm, missed) THEN missed[id] + 1
                    ELSE 0]
    /\ gap' = [id \in TMIds |-> IF id \in acc THEN missed[id] ELSE gap[id]]

\* a frame in which the scene goes on as it was
SteadyFrame(dt) ==
    /\ program = "tracker"
    /\ TMFrameWith(Advance(scene), dt)
    /\ UNCHANGED <<program, extVars, changes, tvVars, mvpVars, sfVars, fnVars>>

\* a frame in which an identifier comes into view
AppearFrame(id, c, dt) ==
    /\ program = "tracker"
    /\ changes < MaxChanges
    /\ ~ scene[id].visible
    /\ TMFrameWith(Show(Advance(scene), id, c), dt)
    /\ changes' = changes + 1
    /\ UNCHANGED <<program, extVars, tvVars, mvpVars, sfVars, fnVars>>

\* a frame in which an identifier goes out of view
DisappearFrame(id, dt) ==
    /\ program = "tracker"
    /\ changes < MaxChanges
    /\ scene[id].visible
    /\ TMFrameWith(Hide(Advance(scene), id), dt)
    /\ changes' = changes + 1
    /\ UNCHANGED <<program, extVars, tvVars, mvpVars, sfVars, fnVars>>

TMInit ==
    /\ program = "tracker"
    /\ clock = StartClock
    /\ tracked_vehicles = << >>
    /\ evals = << >>
    /\ tm = NewTrackingManager
    /\ scene \in [TMIds -> { [ visible |-> a.visible, confidence |-> a.confidence,
                                step |-> a.step, x |-> StartX ] :
                                    a \in Appearances \cup Hidden }]
    /\ changes = 0
    /\ accepted = {}
    /\ missed = [id \in TMIds |-> 0]
    /\ gap = [id \in TMIds |-> 0]
    /\ mvp = << >>
    /\ obs = << >>
    /\ SFIdle

TMNext ==
    \/ \E dt \in TMFrameGaps : SteadyFrame(dt)
    \/ \E id \in TMIds, c \in Confidences, dt \in TMFrameGaps : AppearFrame(id, c, dt)
    \/ \E id \in TMIds, dt \in TMFrameGaps : DisappearFrame(id, dt)

\* the runs of the tracking manager
SpecTM == TMInit /\ [][TMNext]_vars

----------------------------------------------------------------------------
(* ParkingSlot and SmartParkingMVP.update_occupancy                        *)
(* (src/smart_parking_mvp/smart_parking_mvp.py)                            *)
(* Slot polygons are axis-parallel rectangles given by their four corners; *)
(* an overlap ratio is kept as the fraction num / den of two areas.        *)

\* SmartParkingMVP.overlap_threshold = 0.4, in percent
overlap_threshold == 40

\* overlap below which an occupied slot counts a vacant frame (0.2), percent
LeaveThreshold == 20

\* overlap below which one vacant frame is enough (0.05), percent
NearZero == 5

\* frames of high overlap that confirm parking
ConfirmFrames == 2

\* the overlap ratio 0.0
ZeroRatio == [num |-> 0, den |-> 1]

\* ratio r is above / below p percent
RatioGT(r, p) == 100 * r.num > p * r.den

RatioLT(r, p) == 100 * r.num < p * r.den

\* r > q for two ratios
RatioGreater(r, q) == r.num * q.den > q.num * r.den

Max(a, b) == IF a >= b THEN a ELSE b

Min(a, b) == IF a <= b THEN a ELSE b

\* the bounding rectangle (x1, y1, x2, y2) of the corner points
RectOf(points) ==
    LET xs == { points[i][1] : i \in 1..Len(points) }
        ys == { points[i][2] : i \in 1..Len(points) }
    IN  << CHOOSE x \in xs : \A z \in xs : x <= z,
           CHOOSE y \in ys : \A z \in ys : y <= z,
           CHOOSE x \in xs : \A z \in xs : x >= z,
           CHOOSE y \in ys : \A z \in ys : y >= z >>

\* ParkingSlot.__init__
NewParkingSlot(slot_id, points, now) ==
    [ id                   |-> slot_id,
      points               |-> points,
      is_occupied          |-> FALSE,
      occupied_since       |-> None,
      last_vacant          |-> now,
      occupying_vehicle_id |-> None,
      vacant_frames        |-> 0,
      occupied_frames      |-> 0,
      total_occupancies    |-> 0,
      total_duration       |-> 0 ]

\* check_overlap that divides by the vehicle area whatever it is.
check_overlap_NoAreaGuard(slot, bbox) ==
    LET r     == RectOf(slot.points)
        w     == Min(r[3], bbox[3]) - Max(r[1], bbox[1])
        h     == Min(r[4], bbox[4]) - Max(r[2], bbox[2])
        inter == Max(0, w) * Max(0, h)
        area  == (bbox[3] - bbox[1]) * (bbox[4] - bbox[2])
    IN  IF w < 0 \/ h < 0 THEN ZeroRatio
        ELSE [num |-> inter, den |-> area]

\* ParkingSlot.check_overlap: area of (polygon /\ bbox) over the area of bbox
check_overlap(slot, bbox) ==
    LET r     == RectOf(slot.points)
        w     == Min(r[3], bbox[3]) - Max(r[1], bbox[1])
        h     == Min(r[4], bbox[4]) - Max(r[2], bbox[2])
        inter == Max(0, w) * Max(0, h)
        area  == (bbox[3] - bbox[1]) * (bbox[4] - bbox[2])
    IN  IF w < 0 \/ h < 0 THEN ZeroRatio
        ELSE IF area > 0 THEN [num |-> inter, den |-> area]
        ELSE ZeroRatio

\* Python truthiness of an optional number
Truthy(o) == o /= None /\ Val(o) /= 0

\* ParkingSlot.mark_occupied(vehicle_id)
mark_occupied(slot, vehicle_id, now) ==
    LET s1 ==
          IF ~ slot.is_occupied THEN
            [slot EXCEPT !.is_occupied = TRUE,
                         !.occupied_since = Some(now),
                         !.occupying_vehicle_id = vehicle_id,
                         !.total_occupancies = slot.total_occupancies + 1]
          ELSE IF /\ Truthy(vehicle_id)
                  /\ Truthy(slot.occupying_vehicle_id)
                  /\ vehicle_id /= slot.occupying_vehicle_id THEN
            [slot EXCEPT !.total_duration =
                             IF Truthy(slot.occupied_since)
                             THEN slot.total_duration + (now - Val(slot.occupied_since))
                             ELSE slot.total_duration,
                         !.occupied_since = Some(now),
                         !.occupying_vehicle_id = vehicle_id,
                         !.total_occupancies = slot.total_occupancies + 1]
          ELSE slot
    IN  [s1 EXCEPT !.is_occupied = TRUE, !.vacant_frames = 0]

\* mark_vacant that keeps the identifier of the vehicle that left.
mark_vacant_KeepsOccupant(slot, now) ==
    LET s1 ==
          IF slot.is_occupied THEN
            [slot EXCEPT !.total_duration =
                             IF Truthy(slot.occupied_since)
                             THEN slot.total_duration + (now - Val(slot.occupied_since))
                             ELSE slot.total_duration,
                         !.is_occupied = FALSE,
                         !.occupied_since = None,
                         !.last_vacant = now]
          ELSE slot
    IN  [s1 EXCEPT !.occupied_frames = 0]

\* ParkingSlot.mark_vacant
mark_vacant(slot, now) ==
    LET s1 ==
          IF slot.is_occupied THEN
            [slot EXCEPT !.total_duration =
                             IF Truthy(slot.occupied_since)
                             THEN slot.total_duration + (now - Val(slot.occupied_since))
                             ELSE slot.total_duration,
                         !.is_occupied = FALSE,
                         !.occupied_since = None,
                         !.occupying_vehicle_id = None,
                         !.last_vacant = now]
          ELSE slot
    IN  [s1 EXCEPT !.occupied_frames = 0]

\* "find best matching vehicle": the loop over vehicles[i..]
RECURSIVE BestLoop(_, _, _, _)
BestLoop(slot, vehicles, i, best) ==
    IF i > Len(vehicles) THEN best
    ELSE LET overlap == check_overlap(slot, vehicles[i].bbox) IN
         BestLoop(slot, vehicles, i + 1,
                  IF RatioGreater(overlap, best.overlap)
                  THEN [overlap |-> overlap, vehicle |-> Some(vehicles[i].id)]
                  ELSE best)

\* best_overlap and the id of best_vehicle for a slot
BestMatch(slot, vehicles) ==
    BestLoop(slot, vehicles, 1, [overlap |-> ZeroRatio, vehicle |-> None])

\* FramesNeeded that always waits for a second frame.
FramesNeeded_AlwaysTwo(best_overlap) == 2

\* vacant frames needed to turn an occupied slot vacant
FramesNeeded(best_overlap) == IF RatioLT(best_overlap, NearZero) THEN 1 ELSE 2

\* IsParkedOverlap with the leave threshold in place of the enter threshold.
IsParkedOverlap_LeaveThreshold(best_overlap) == ~ RatioLT(best_overlap, LeaveThreshold)

\* the test that counts a frame towards parking on a vacant slot
IsParkedOverlap(best_overlap) == RatioGT(best_overlap, overlap_threshold)

\* IsLeaving that never sees the vehicle leave while some overlap is left.
IsLeaving_OnlyNearZero(best_overlap) == RatioLT(best_overlap, NearZero)

\* the test that counts a vacant frame on an occupied slot
IsLeaving(best_overlap) == RatioLT(best_overlap, LeaveThreshold)

\* the body of update_occupancy for one slot
UpdateSlot(slot, vehicles, now) ==
    LET best == BestMatch(slot, vehicles) IN
    IF slot.is_occupied THEN
      IF IsLeaving(best.overlap) THEN
        LET s1 == [slot EXCEPT !.vacant_frames = slot.vacant_frames + 1] IN
        IF s1.vacant_frames >= FramesNeeded(best.overlap)
        THEN mark_vacant(s1, now) ELSE s1
      ELSE
        LET s1 == [slot EXCEPT !.vacant_frames = 0] IN
        IF best.vehicle /= None /\ best.vehicle /= s1.occupying_vehicle_id
        THEN mark_occupied(s1, best.vehicle, now) ELSE s1
    ELSE
      IF IsParkedOverlap(best.overlap) THEN
        LET s1 == [slot EXCEPT !.occupied_frames = slot.occupied_frames + 1] IN
        IF s1.occupied_frames >= ConfirmFrames /\ best.vehicle /= None
        THEN mark_occupied(s1, best.vehicle, now) ELSE s1
      ELSE [slot EXCEPT !.occupied_frames = 0]

\* SmartParkingMVP.update_occupancy
update_occupancy(slots, vehicles, now) ==
    [i \in DOMAIN slots |-> UpdateSlot(slots[i], vehicles, now)]

(* The occupancy runs.                                                     *)

\* process_frame is called at most this many times
MaxOccFrames == 5

\* the slot definition file of the occupancy runs
SlotDefs == << [id |-> 1, points |-> << <<0, 0>>, <<100, 0>>, <<100, 100>>, <<0, 100>> >>] >>

\* seconds between two frames of the occupancy runs
OccFrameGaps == {1, 2}

\* bounding boxes of the first vehicle: fully inside the slot, or a
\* 100 x 100 box overlapping it by 40, 30, 20, 15, 5 or 3 percent
BoxesA ==
    { <<10, 10, 90, 90>> } \cup
    { <<x, 0, x + 100, 100>> : x \in {60, 70, 80, 85, 95, 97} }

\* bounding boxes of the second vehicle: overlapping the slot by 60 or 30 percent
BoxesB == { <<x, 0, x + 100, 100>> : x \in {40, 70} }

\* the vehicle lists of a frame: ByteTrack identifiers start at 1
VehicleLists ==
    { << >> }
      \cup { << [id |-> 1, bbox |-> a] >> : a \in BoxesA }
      \cup { << [id |-> 2, bbox |-> b] >> : b \in BoxesB }
      \cup { << [id |-> 1, bbox |-> a], [id |-> 2, bbox |-> b] >> :
                a \in BoxesA, b \in BoxesB }

\* what update_occupancy saw for a slot in one frame
Observation(slot, vehicles, now) ==
    LET best == BestMatch(slot, vehicles) IN
    [ overlap |-> best.overlap,
      vehicle |-> best.vehicle,
      before  |-> slot,
      t       |-> now ]

\* the last two observations
Remember(log, o) == IF Len(log) >= 2 THEN << log[Len(log)], o >> ELSE Append(log, o)

\* SmartParkingMVP.process_frame from the tracked vehicles on: update_occupancy
OccupancyFrame(vehicles, dt) ==
    LET now == clock + dt IN
    /\ program = "smart_parking_mvp"
    /\ mvp.frame_count < MaxOccFrames
    /\ clock' = now
    /\ mvp' = [mvp EXCEPT !.frame_count = mvp.frame_count + 1,
                          !.slots = update_occupancy(mvp.slots, vehicles, now)]
    /\ obs' = [i \in DOMAIN obs |->
                  Remember(obs[i], Observation(mvp.slots[i], vehicles, now))]
    /\ UNCHANGED <<program, extVars, tvVars, tmVars, sfVars, fnVars>>

OccInit ==
    /\ program = "smart_parking_mvp"
    /\ clock = StartClock
    /\ tracked_vehicles = << >>
    /\ evals = << >>
    /\ tm = << >>
    /\ scene = << >>
    /\ changes = 0
    /\ accepted = {}
    /\ missed = << >>
    /\ gap = << >>
    /\ mvp = [ slots       |-> [i \in DOMAIN SlotDefs |->
                                   NewParkingSlot(SlotDefs[i].id, SlotDefs[i].points,
                                                  StartClock)],
               frame_count |-> 0 ]
    /\ obs = [i \in DOMAIN SlotDefs |-> << >>]
    /\ SFIdle

OccNext == \E vehicles \in VehicleLists, dt \in OccFrameGaps : OccupancyFrame(vehicles, dt)

\* the runs of the slot occupancy engine
SpecOcc == OccInit /\ [][OccNext]_vars

----------------------------------------------------------------------------
(* StabilityFilter on its own (src/smart_parking_mvp/tracker.py): one      *)
(* filter_detections call per frame.                                       *)

\* filter_detections is called at most this many times
MaxFilterFrames == 7

\* identifiers ByteTrack hands out in the filter runs
SFIds == {1}

\* detection confidences (percent) in the filter runs
SFConfidences == {30, 60, 90}

\* the detection lists of a frame: each identifier absent or detected once
SFDetectionLists ==
    { << >> } \cup
    { << [track_id |-> id, confidence |-> c, center |-> <<StartX, 150>>] >> :
         id \in SFIds, c \in SFConfidences }

\* the identifiers of a detection list
IdsOf(dets) == { dets[i].track_id : i \in 1..Len(dets) }

\* StabilityFilter.filter_detections(detections)
FilterFrame(dets) ==
    LET f == filter_detections(sfilter, dets) IN
    /\ program = "stability_filter"
    /\ sflog.frames < MaxFilterFrames
    /\ sfilter' = f.hist
    /\ sflog' = [ frames |-> sflog.frames + 1,
                  dets   |-> dets,
                  stable |-> f.stable,
                  before |-> sfilter,
                  streak |-> [id \in SFIds |->
                                 IF id \in IdsOf(dets) THEN sflog.streak[id] + 1 ELSE 0] ]
    /\ UNCHANGED <<program, extVars, clock, tvVars, tmVars, mvpVars, fnVars>>

\* StabilityFilter.__init__
SFInit ==
    /\ program = "stability_filter"
    /\ clock = StartClock
    /\ tracked_vehicles = << >>
    /\ evals = << >>
    /\ tm = << >>
    /\ scene = << >>
    /\ changes = 0
    /\ accepted = {}
    /\ missed = << >>
    /\ gap = << >>
    /\ mvp = << >>
    /\ obs = << >>
    /\ sfilter = << >>
    /\ sflog = [ frames |-> 0, dets |-> << >>, stable |-> << >>, before |-> << >>,
                 streak |-> [id \in SFIds |-> 0] ]
    /\ suppressor = << >>
    /\ iou_call = << >>
    /\ ExtIdle

SFNext == \E dets \in SFDetectionLists : FilterFrame(dets)

\* the runs of a stability filter
SpecSF == SFInit /\ [][SFNext]_vars

----------------------------------------------------------------------------
(* The tracker in a full scene: more vehicles than MAX_TRACKED_VEHICLES.   *)

\* update_trackers is called at most this many times in the full scene
MaxCrowdFrames == 5

\* identifiers ByteTrack hands out in the full scene
CrowdIds == 1..(MAX_TRACKED_VEHICLES + 1)

\* the vehicles that come and go; the others are detected in every frame
ComingAndGoing == {MAX_TRACKED_VEHICLES, MAX_TRACKED_VEHICLES + 1}

\* confidence (percent) of every detection in the full scene
CrowdConfidence == 90

\* the scene in which exactly the vehicles of here are in view
CrowdScene(here) ==
    [id \in CrowdIds |->
        [ visible    |-> id \in here,
          confidence |-> IF id \in here THEN CrowdConfidence ELSE 0,
          step       |-> 0,
          x          |-> StartX ]]

\* VehicleDetector.detect on the next frame of the full scene
CrowdFrame(here) ==
    LET sc   == CrowdScene((CrowdIds \ ComingAndGoing) \cup here)
        dets == Detections(sc)
        now  == clock + 1
    IN
    /\ program = "tracker_full_scene"
    /\ tm.current_frame < MaxCrowdFrames
    /\ clock' = now
    /\ scene' = sc
    /\ tm' = update_trackers(tm, dets, now)
    /\ accepted' = AcceptedIds(tm, dets)
    /\ UNCHANGED <<program, extVars, changes, missed, gap, tvVars, mvpVars, sfVars, fnVars>>

CrowdInit ==
    /\ program = "tracker_full_scene"
    /\ clock = StartClock
    /\ tracked_vehicles = << >>
    /\ evals = << >>
    /\ tm = NewTrackingManager
    /\ scene = CrowdScene({})
    /\ changes = 0
    /\ accepted = {}
    /\ missed = << >>
    /\ gap = << >>
    /\ mvp = << >>
    /\ obs = << >>
    /\ SFIdle

CrowdNext == \E here \in SUBSET ComingAndGoing : CrowdFrame(here)

\* the runs of the tracking manager in a full scene
SpecCrowd == CrowdInit /\ [][CrowdNext]_vars

----------------------------------------------------------------------------
(* calculate_iou and remove_duplicate_detections                           *)
(* (src/smart_parking_mvp/tracker.py).  An IoU is kept as the fraction     *)
(* num / den of intersection over union.                                   *)

\* config.DUPLICATE_IOU_THRESHOLD and the default iou_threshold (0.65), percent
DUPLICATE_IOU_THRESHOLD == 65

\* calculate_iou that divides by the area of the first box.
calculate_iou_OverFirstArea(box1, box2) ==
    LET x1 == Max(box1[1], box2[1])
        y1 == Max(box1[2], box2[2])
        x2 == Min(box1[3], box2[3])
        y2 == Min(box1[4], box2[4])
        intersection == Max(0, x2 - x1) * Max(0, y2 - y1)
        area1 == (box1[3] - box1[1]) * (box1[4] - box1[2])
    IN  IF area1 > 0 THEN [num |-> intersection, den |-> area1] ELSE ZeroRatio

\* calculate_iou(box1, box2)
calculate_iou(box1, box2) ==
    LET x1 == Max(box1[1], box2[1])
        y1 == Max(box1[2], box2[2])
        x2 == Min(box1[3], box2[3])
        y2 == Min(box1[4], box2[4])
        intersection == Max(0, x2 - x1) * Max(0, y2 - y1)
        area1 == (box1[3] - box1[1]) * (box1[4] - box1[2])
        area2 == (box2[3] - box2[1]) * (box2[4] - box2[2])
        union == area1 + area2 - intersection
    IN  IF union > 0 THEN [num |-> intersection, den |-> union] ELSE ZeroRatio

\* InsertByConfidence that puts a detection in front of its equals.
InsertByConfidence_BeforeTies(sorted, det) ==
    LET ahead == { i \in 1..Len(sorted) : sorted[i].confidence > det.confidence }
        n     == Cardinality(ahead)
    IN  SubSeq(sorted, 1, n) \o << det >> \o SubSeq(sorted, n + 1, Len(sorted))

\* where a stable sort by descending confidence puts the next detection:
\* behind every detection whose confidence is not lower
InsertByConfidence(sorted, det) ==
    LET ahead == { i \in 1..Len(sorted) : sorted[i].confidence >= det.confidence }
        n     == Cardinality(ahead)
    IN  SubSeq(sorted, 1, n) \o << det >> \o SubSeq(sorted, n + 1, Len(sorted))

\* SortByConfidence with the lowest confidence first.
RECURSIVE SortByConfidence_Ascending(_)
SortByConfidence_Ascending(dets) ==
    IF dets = << >> THEN << >>
    ELSE LET rest == SortByConfidence_Ascending(SubSeq(dets, 1, Len(dets) - 1))
             det  == dets[Len(dets)]
             n    == Cardinality({ i \in 1..Len(rest) :
                                      rest[i].confidence <= det.confidence })
         IN  SubSeq(rest, 1, n) \o << det >> \o SubSeq(rest, n + 1, Len(rest))

\* sorted(detections, key=confidence, reverse=True): stable, highest first
RECURSIVE SortByConfidence(_)
SortByConfidence(dets) ==
    IF dets = << >> THEN << >>
    ELSE InsertByConfidence(SortByConfidence(SubSeq(dets, 1, Len(dets) - 1)),
                            dets[Len(dets)])

\* IsDuplicate that looks at the detection kept last only.
IsDuplicate_LastOnly(det, keep, iou_threshold) ==
    /\ keep /= << >>
    /\ RatioGT(calculate_iou(det.bbox, keep[Len(keep)].bbox), iou_threshold)

\* "check against all kept detections": should_keep is false
IsDuplicate(det, keep, iou_threshold) ==
    \E k \in 1..Len(keep) :
        RatioGT(calculate_iou(det.bbox, keep[k].bbox), iou_threshold)

\* the loop over sorted_dets after its first k rounds: the list keep
RECURSIVE KeepLoop(_, _, _)
KeepLoop(sorted_dets, k, iou_threshold) ==
    IF k = 0 THEN << >>
    ELSE LET keep == KeepLoop(sorted_dets, k - 1, iou_threshold)
         IN  IF IsDuplicate(sorted_dets[k], keep, iou_threshold)
             THEN keep ELSE Append(keep, sorted_dets[k])

\* remove_duplicate_detections(detections, iou_threshold)
remove_duplicate_detections(detections, iou_threshold) ==
    IF Len(detections) = 0 THEN detections
    ELSE KeepLoop(SortByConfidence(detections), Len(detections), iou_threshold)

(* The calls of remove_duplicate_detections.                               *)

\* a detection list has at most this many detections
MaxDets == 3

\* bounding boxes of the detections: a vehicle, the same vehicle shifted by
\* 5, 10 and 30 pixels, and a vehicle elsewhere
DetBoxes ==
    { <<0, 0, 100, 100>>, <<5, 5, 105, 105>>, <<10, 0, 110, 100>>,
      <<30, 0, 130, 100>>, <<200, 0, 300, 100>> }

\* confidences (percent) of the detections
DetConfidences == {60, 90}

\* IoU thresholds (percent) passed to remove_duplicate_detections
IouThresholds == {DUPLICATE_IOU_THRESHOLD, 50}

\* the detection lists of up to n detections; a detection carries the
\* identifier ByteTrack gave it, here its place in the list
DetectionLists(n) ==
    UNION { { [ i \in 1..len |->
                  [ track_id |-> i, bbox |-> f[i][1], confidence |-> f[i][2] ] ] :
              f \in [1..len -> DetBoxes \X DetConfidences] } : len \in 0..n }

\* the first call: remove_duplicate_detections(detections, iou_threshold)
Suppress ==
    /\ program = "remove_duplicate_detections"
    /\ suppressor.kept = None
    /\ suppressor' = [suppressor EXCEPT !.kept =
           Some(remove_duplicate_detections(suppressor.detections,
                                            suppressor.iou_threshold))]
    /\ UNCHANGED <<program, extVars, clock, tvVars, tmVars, mvpVars, sfVars, iou_call>>

\* the second call, on the output of the first
SuppressAgain ==
    /\ program = "remove_duplicate_detections"
    /\ suppressor.kept /= None
    /\ suppressor.kept_again = None
    /\ suppressor' = [suppressor EXCEPT !.kept_again =
           Some(remove_duplicate_detections(Val(suppressor.kept),
                                            suppressor.iou_threshold))]
    /\ UNCHANGED <<program, extVars, clock, tvVars, tmVars, mvpVars, sfVars, iou_call>>

SuppressInit ==
    /\ program = "remove_duplicate_detections"
    /\ clock = StartClock
    /\ tracked_vehicles = << >>
    /\ evals = << >>
    /\ tm = << >>
    /\ scene = << >>
    /\ changes = 0
    /\ accepted = {}
    /\ missed = << >>
    /\ gap = << >>
    /\ mvp = << >>
    /\ obs = << >>
    /\ sfilter = << >>
    /\ sflog = << >>
    /\ \E dets \in DetectionLists(MaxDets), t \in IouThresholds :
          suppressor = [ detections |-> dets, iou_threshold |-> t,
                         kept |-> None, kept_again |-> None ]
    /\ iou_call = << >>
    /\ ExtIdle

SuppressNext == Suppress \/ SuppressAgain

\* the calls of remove_duplicate_detections
SpecSuppress == SuppressInit /\ [][SuppressNext]_vars

(* The calls of calculate_iou.                                             *)

\* box corners lie on a grid of this many cells a side
GridCells == 2

\* pixels per grid cell
CellSize == 50

\* the boxes with x2 > x1 and y2 > y1 on the grid
GridBoxes ==
    { <<x1 * CellSize, y1 * CellSize, x2 * CellSize, y2 * CellSize>> :
         x1 \in 0..GridCells, y1 \in 0..GridCells, x2 \in 0..GridCells, y2 \in 0..GridCells }
      \cap { b \in (Int \X Int \X Int \X Int) : b[3] > b[1] /\ b[4] > b[2] }

\* calculate_iou(A, B), calculate_iou(B, A) and calculate_iou(A, A)
CallIoU ==
    /\ program = "calculate_iou"
    /\ iou_call.ab = None
    /\ iou_call' = [iou_call EXCEPT
           !.ab = Some(calculate_iou(iou_call.A, iou_call.B)),
           !.ba = Some(calculate_iou(iou_call.B, iou_call.A)),
           !.aa = Some(calculate_iou(iou_call.A, iou_call.A))]
    /\ UNCHANGED <<program, extVars, clock, tvVars, tmVars, mvpVars, sfVars, suppressor>>

IoUInit ==
    /\ program = "calculate_iou"
    /\ clock = StartClock
    /\ tracked_vehicles = << >>
    /\ evals = << >>
    /\ tm = << >>
    /\ scene = << >>
    /\ changes = 0
    /\ accepted = {}
    /\ missed = << >>
    /\ gap = << >>
    /\ mvp = << >>
    /\ obs = << >>
    /\ sfilter = << >>
    /\ sflog = << >>
    /\ suppressor = << >>
    /\ \E A \in GridBoxes, B \in GridBoxes :
          iou_call = [ A |-> A, B |-> B, ab |-> None, ba |-> None, aa |-> None ]
    /\ ExtIdle

IoUNext == CallIoU

\* the calls of calculate_iou
SpecIoU == IoUInit /\ [][IoUNext]_vars

----------------------------------------------------------------------------
(* Malformed geometry: calculate_iou and ParkingSlot.check_overlap on       *)
(* boxes without area, update_occupancy on slots whose polygon has no area. *)

\* all boxes with corners on the grid, whatever the order of the corners
AnyBoxes ==
    { <<x1 * CellSize, y1 * CellSize, x2 * CellSize, y2 * CellSize>> :
         x1 \in 0..GridCells, y1 \in 0..GridCells, x2 \in 0..GridCells, y2 \in 0..GridCells }

\* the grid boxes a detector can report: x2 >= x1 and y2 >= y1
FlatOrFullBoxes == { b \in AnyBoxes : b[3] >= b[1] /\ b[4] >= b[2] }

\* slot polygons: a square, a polygon collapsed to a segment, one collapsed
\* to a point
SquarePoints == << <<0, 0>>, <<100, 0>>, <<100, 100>>, <<0, 100>> >>

SegmentPoints == << <<0, 50>>, <<100, 50>>, <<100, 50>>, <<0, 50>> >>

PointPoints == << <<50, 50>>, <<50, 50>>, <<50, 50>>, <<50, 50>> >>

\* the slot definition file of the runs with collapsed polygons
FlatSlotDefs == << [id |-> 1, points |-> SegmentPoints], [id |-> 2, points |-> PointPoints] >>

\* the vehicle lists of a frame: a vehicle covering both collapsed slots, one
\* covering the segment in part, a vehicle box without area on the segment
FlatVehicleLists ==
    { << >> }
      \cup { << [id |-> 1, bbox |-> b] >> :
                b \in { <<0, 0, 100, 100>>, <<60, 40, 160, 60>>, <<50, 0, 50, 100>> } }

\* calculate_iou(A, B) on any two boxes
CallIoUAny ==
    /\ program = "malformed_geometry"
    /\ call.fn = "calculate_iou"
    /\ call.result = None
    /\ call' = [call EXCEPT !.result = Some(calculate_iou(call.A, call.B))]
    /\ UNCHANGED <<program, clock, tvVars, tmVars, mvpVars, sfVars, fnVars, apd>>

\* slot.check_overlap(bbox)
CallCheckOverlap ==
    /\ program = "malformed_geometry"
    /\ call.fn = "check_overlap"
    /\ call.result = None
    /\ call' = [call EXCEPT !.result = Some(check_overlap(call.slot, call.bbox))]
    /\ UNCHANGED <<program, clock, tvVars, tmVars, mvpVars, sfVars, fnVars, apd>>

\* update_occupancy on the collapsed slots
FlatSlotFrame(vehicles, dt) ==
    LET now == clock + dt IN
    /\ program = "malformed_geometry"
    /\ call.fn = "update_occupancy"
    /\ mvp.frame_count < MaxOccFrames
    /\ clock' = now
    /\ mvp' = [mvp EXCEPT !.frame_count = mvp.frame_count + 1,
                          !.slots = update_occupancy(mvp.slots, vehicles, now)]
    /\ obs' = [i \in DOMAIN obs |->
                  Remember(obs[i], Observation(mvp.slots[i], vehicles, now))]
    /\ call' = [call EXCEPT !.frames = Append(call.frames, vehicles)]
    /\ UNCHANGED <<program, tvVars, tmVars, sfVars, fnVars, apd>>

MalformedInit ==
    /\ program = "malformed_geometry"
    /\ clock = StartClock
    /\ tracked_vehicles = << >>
    /\ evals = << >>
    /\ tm = << >>
    /\ scene = << >>
    /\ changes = 0
    /\ accepted = {}
    /\ missed = << >>
    /\ gap = << >>
    /\ sfilter = << >> /\ sflog = << >> /\ suppressor = << >> /\ iou_call = << >>
    /\ apd = << >>
    /\ \/ /\ \E A \in AnyBoxes, B \in AnyBoxes :
               call = [fn |-> "calculate_iou", A |-> A, B |-> B, result |-> None]
          /\ mvp = << >>
          /\ obs = << >>
       \/ /\ \E points \in {SquarePoints, SegmentPoints, PointPoints}, bbox \in FlatOrFullBoxes :
               call = [ fn |-> "check_overlap",
                        slot |-> NewParkingSlot(1, points, StartClock),
                        bbox |-> bbox, result |-> None ]
          /\ mvp = << >>
          /\ obs = << >>
       \/ /\ call = [fn |-> "update_occupancy", frames |-> << >>]
          /\ mvp = [ slots       |-> [i \in DOMAIN FlatSlotDefs |->
                                         NewParkingSlot(FlatSlotDefs[i].id,
                                                        FlatSlotDefs[i].points, StartClock)],
                     frame_count |-> 0 ]
          /\ obs = [i \in DOMAIN FlatSlotDefs |-> << >>]

MalformedNext ==
    \/ CallIoUAny
    \/ CallCheckOverlap
    \/ \E vehicles \in FlatVehicleLists, dt \in OccFrameGaps : FlatSlotFrame(vehicles, dt)

\* the calls with malformed geometry
SpecMalformed == MalformedInit /\ [][MalformedNext]_vars

----------------------------------------------------------------------------
(* ParkingZone and AutomaticParkingDetector with a parking zone, with and   *)
(* without an external tracker (src/automatic_detector.py).                *)

\* the edge a -> b is crossed by the ray from p to the right
CrossedByRay(p, a, b) ==
    /\ (a[2] > p[2]) /= (b[2] > p[2])
    /\ IF b[2] > a[2]
       THEN (p[1] - a[1]) * (b[2] - a[2]) < (p[2] - a[2]) * (b[1] - a[1])
       ELSE (p[1] - a[1]) * (b[2] - a[2]) > (p[2] - a[2]) * (b[1] - a[1])

\* p lies on the edge a -> b
OnEdge(p, a, b) ==
    /\ (p[1] - a[1]) * (b[2] - a[2]) = (p[2] - a[2]) * (b[1] - a[1])
    /\ Min(a[1], b[1]) <= p[1] /\ p[1] <= Max(a[1], b[1])
    /\ Min(a[2], b[2]) <= p[2] /\ p[2] <= Max(a[2], b[2])

\* cv2.pointPolygonTest(points, point, False): +1 inside, 0 on an edge, -1 outside
pointPolygonTest(points, point) ==
    LET n     == Len(points)
        nxt(i) == IF i = n THEN 1 ELSE i + 1
    IN  IF \E i \in 1..n : OnEdge(point, points[i], points[nxt(i)]) THEN 0
        ELSE IF Cardinality({ i \in 1..n :
                     CrossedByRay(point, points[i], points[nxt(i)]) }) % 2 = 1 THEN 1
        ELSE -1

\* ParkingZone.__init__: self.points, None for no points or an empty list
NewParkingZone(points) ==
    IF points = None \/ Val(points) = << >> THEN None ELSE points

\* contains_point that counts the boundary as outside.
contains_point_StrictlyInside(zone, point) ==
    IF zone = None THEN TRUE
    ELSE pointPolygonTest(Val(zone), point) > 0

\* ParkingZone.contains_point
contains_point(zone, point) ==
    IF zone = None THEN TRUE
    ELSE pointPolygonTest(Val(zone), point) >= 0

\* ParkingZone.contains_bbox (the threshold argument is not read)
contains_bbox(zone, bbox) ==
    IF zone = None THEN TRUE
    ELSE LET center_x == (bbox[1] + bbox[3]) \div 2
             center_y == (bbox[2] + bbox[4]) \div 2
         IN  contains_point(zone, <<center_x, center_y>>)

\* seconds after which a vehicle that is not seen is removed
LostAfter == 5

\* tracker_id of the vehicles made without a tracker
NoTrackerId == -1

\* update_tracking, the loop over the tracked detections dets[k..]
RECURSIVE UpdateTracked(_, _, _, _)
UpdateTracked(tvs, dets, k, now) ==
    IF k > Len(dets) THEN tvs
    ELSE UpdateTracked(update_tracking(tvs, dets[k].tracker_id, dets[k].bbox, now),
                       dets, k + 1, now)

\* update_tracking, "remove lost tracks (not seen for 5 seconds)"
RemoveLost(tvs, current_frame_ids, now) ==
    LET to_remove == { id \in DOMAIN tvs :
                          id \notin current_frame_ids /\ now - tvs[id].last_seen > LostAfter }
    IN  [id \in DOMAIN tvs \ to_remove |-> tvs[id]] @@ << >>

\* update_tracking_frame whose fallback keeps its vehicles from frame to frame.
update_tracking_frame_FallbackRemembers(tracker, tvs, dets, now) ==
    LET numbered == [k \in 1..Len(dets) |-> [tracker_id |-> k, bbox |-> dets[k].bbox]]
        tvs1     == UpdateTracked(tvs, numbered, 1, now)
        order    == SetToSeq(DOMAIN tvs1)
    IN  [ tvs |-> tvs1, vehicles |-> [k \in 1..Len(order) |-> tvs1[order[k]]] ]

\* AutomaticParkingDetector.update_tracking(frame, detections): the dictionary
\* tracked_vehicles after the call and the list returned.  The list of the
\* dictionary's values is given in the order of the identifiers.
update_tracking_frame(tracker, tvs, dets, now) ==
    IF ~ tracker THEN
      [ tvs      |-> tvs,
        vehicles |-> [k \in 1..Len(dets) |->
                         NewTrackedVehicle(NoTrackerId, dets[k].bbox, now)] ]
    ELSE IF Len(dets) = 0 THEN [tvs |-> tvs, vehicles |-> << >>]
    ELSE
      LET ids  == { dets[k].tracker_id : k \in 1..Len(dets) }
          tvs1 == RemoveLost(UpdateTracked(tvs, dets, 1, now), ids, now)
          order == SetToSeq(DOMAIN tvs1)
      IN  [ tvs |-> tvs1, vehicles |-> [k \in 1..Len(order) |-> tvs1[order[k]]] ]

\* ClassifyOne that asks check_if_parked about vehicles outside the zone too.
ClassifyOne_ZoneIgnored(zone, v, speed_threshold, time_threshold, now) ==
    LET res == check_if_parked(v, speed_threshold, time_threshold, now)
    IN  [v |-> res.v, list |-> IF res.ret THEN "parked" ELSE "moving"]

\* classify_parking_status, one round of the loop: the vehicle after it and
\* the list it is appended to
ClassifyOne(zone, v, speed_threshold, time_threshold, now) ==
    IF ~ contains_bbox(zone, v.bbox) THEN [v |-> v, list |-> "neither"]
    ELSE LET res == check_if_parked(v, speed_threshold, time_threshold, now)
         IN  [v |-> res.v, list |-> IF res.ret THEN "parked" ELSE "moving"]

\* AutomaticParkingDetector.classify_parking_status: the vehicles after the
\* call, and the two lists as positions in the list of vehicles
classify_parking_status(zone, vehicles, speed_threshold, time_threshold, now) ==
    LET one == [k \in 1..Len(vehicles) |->
                   ClassifyOne(zone, vehicles[k], speed_threshold, time_threshold, now)]
        pick(name) == SelectSeq([k \in 1..Len(vehicles) |-> k],
                                LAMBDA k : one[k].list = name)
    IN  [ vehicles |-> [k \in 1..Len(vehicles) |-> one[k].v],
          parked   |-> pick("parked"),
          moving   |-> pick("moving") ]

(* The calls of ParkingZone.contains_bbox and contains_point.               *)

\* the points a ParkingZone is built from: none, an empty list, the square
\* of side 100, a square of side 50, a triangle
ZoneShapes == {"none", "empty", "square", "small_square", "triangle"}

ShapePoints(shape) ==
    CASE shape = "none"         -> None
      [] shape = "empty"        -> Some(<< >>)
      [] shape = "square"       -> Some(<< <<0, 0>>, <<100, 0>>, <<100, 100>>, <<0, 100>> >>)
      [] shape = "small_square" -> Some(<< <<0, 0>>, <<50, 0>>, <<50, 50>>, <<0, 50>> >>)
      [] shape = "triangle"     -> Some(<< <<0, 0>>, <<100, 0>>, <<0, 100>> >>)

\* the boxes asked about: the grid boxes, a box around (50, 50), a box with
\* negative corners whose center is not a grid point
AskedBoxes == FlatOrFullBoxes \cup { <<40, 40, 60, 60>>, <<-30, -30, -11, -11>> }

\* zone.contains_bbox(bbox) and zone.contains_point(center of bbox)
CallContains ==
    /\ program = "contains_bbox"
    /\ call.result = None
    /\ call' = [call EXCEPT !.result =
           Some([ bbox  |-> contains_bbox(call.zone, call.bbox),
                  point |-> contains_point(call.zone, get_center(call.bbox)) ])]
    /\ UNCHANGED <<program, clock, tvVars, tmVars, mvpVars, sfVars, fnVars, apd>>

ContainsInit ==
    /\ program = "contains_bbox"
    /\ clock = StartClock
    /\ tracked_vehicles = << >>
    /\ evals = << >>
    /\ tm = << >>
    /\ scene = << >>
    /\ changes = 0
    /\ accepted = {}
    /\ missed = << >>
    /\ gap = << >>
    /\ mvp = << >>
    /\ obs = << >>
    /\ sfilter = << >> /\ sflog = << >> /\ suppressor = << >> /\ iou_call = << >>
    /\ apd = << >>
    /\ \E shape \in ZoneShapes, bbox \in AskedBoxes :
          call = [ fn |-> "contains_bbox", shape |-> shape,
                   zone |-> NewParkingZone(ShapePoints(shape)),
                   bbox |-> bbox, result |-> None ]

ContainsNext == CallContains

\* the calls of ParkingZone.contains_bbox
SpecContains == ContainsInit /\ [][ContainsNext]_vars

(* The updates of one VehicleTracker.                                      *)

\* VehicleTracker.update is called at most this many times
MaxUpdates == 24

\* the vehicle changes between moving and standing at most this many times
MaxTurns == 3

\* pixels the vehicle is displaced between two updates: just below and just
\* at the motion threshold
Displacements == {4, 5}

\* tracker.update(position, bbox) for a position d pixels from the last one,
\* one second after the last update
VTUpdate(d) ==
    LET n    == Len(call.moved)
        flag == d >= MOTION_THRESHOLD
        turn == IF n > 0 /\ call.moved[n] /= flag THEN 1 ELSE 0
        t    == call.tracker
    IN
    /\ program = "vehicle_tracker"
    /\ n < MaxUpdates
    /\ call.turns + turn <= MaxTurns
    /\ call' = [ fn      |-> "VehicleTracker.update",
                 tracker |-> VT_update(t, << t.current_position[1] + d,
                                             t.current_position[2] >>,
                                       FullConfidence, clock + 1),
                 moved   |-> Append(call.moved, flag),
                 turns   |-> call.turns + turn ]
    /\ clock' = clock + 1
    /\ UNCHANGED <<program, tvVars, tmVars, mvpVars, sfVars, fnVars, apd>>

VTInit ==
    /\ program = "vehicle_tracker"
    /\ clock = StartClock
    /\ tracked_vehicles = << >>
    /\ evals = << >>
    /\ tm = << >>
    /\ scene = << >>
    /\ changes = 0
    /\ accepted = {}
    /\ missed = << >>
    /\ gap = << >>
    /\ mvp = << >>
    /\ obs = << >>
    /\ sfilter = << >> /\ sflog = << >> /\ suppressor = << >> /\ iou_call = << >>
    /\ apd = << >>
    /\ call = [ fn      |-> "VehicleTracker.update",
                tracker |-> NewVehicleTracker(1, <<StartX, 150>>, StartClock),
                moved   |-> << >>,
                turns   |-> 0 ]

VTNext == \E d \in Displacements : VTUpdate(d)

\* the updates of one VehicleTracker
SpecVT == VTInit /\ [][VTNext]_vars

(* The occupancy runs with two slots.                                      *)

\* update_occupancy is called at most this many times on the two slots
MaxLotFrames == 4

\* two slots side by side, 10 pixels apart
LotSlotDefs ==
    << [id |-> 1, points |-> << <<0, 0>>, <<100, 0>>, <<100, 100>>, <<0, 100>> >>],
       [id |-> 2, points |-> << <<110, 0>>, <<210, 0>>, <<210, 100>>, <<110, 100>> >>] >>

\* bounding boxes of the first vehicle: inside the left slot, inside the
\* right slot, or 200 pixels wide across both (47.5 percent in each)
LotBoxesA == { <<10, 10, 90, 90>>, <<120, 10, 200, 90>>, <<5, 0, 205, 100>> }

\* bounding boxes of the second vehicle: inside the left slot
LotBoxesB == { <<10, 10, 90, 90>> }

\* the vehicle lists of a frame on the two slots
LotVehicleLists ==
    { << >> }
      \cup { << [id |-> 1, bbox |-> a] >> : a \in LotBoxesA }
      \cup { << [id |-> 2, bbox |-> b] >> : b \in LotBoxesB }
      \cup { << [id |-> 1, bbox |-> a], [id |-> 2, bbox |-> b] >> :
                a \in LotBoxesA, b \in LotBoxesB }

\* SmartParkingMVP.process_frame from the tracked vehicles on, two slots
LotFrame(vehicles, dt) ==
    LET now == clock + dt IN
    /\ program = "smart_parking_two_slots"
    /\ mvp.frame_count < MaxLotFrames
    /\ clock' = now
    /\ mvp' = [mvp EXCEPT !.frame_count = mvp.frame_count + 1,
                          !.slots = update_occupancy(mvp.slots, vehicles, now)]
    /\ obs' = [i \in DOMAIN obs |->
                  Remember(obs[i], Observation(mvp.slots[i], vehicles, now))]
    /\ UNCHANGED <<program, extVars, tvVars, tmVars, sfVars, fnVars>>

LotInit ==
    /\ program = "smart_parking_two_slots"
    /\ clock = StartClock
    /\ tracked_vehicles = << >>
    /\ evals = << >>
    /\ tm = << >>
    /\ scene = << >>
    /\ changes = 0
    /\ accepted = {}
    /\ missed = << >>
    /\ gap = << >>
    /\ mvp = [ slots       |-> [i \in DOMAIN LotSlotDefs |->
                                   NewParkingSlot(LotSlotDefs[i].id, LotSlotDefs[i].points,
                                                  StartClock)],
               frame_count |-> 0 ]
    /\ obs = [i \in DOMAIN LotSlotDefs |-> << >>]
    /\ SFIdle

LotNext == \E vehicles \in LotVehicleLists : LotFrame(vehicles, 1)

\* the runs of the slot occupancy engine on two slots
SpecLot == LotInit /\ [][LotNext]_vars

(* DetectionStabilizer (src/utils.py), as built by the module's self-test:  *)
(* DetectionStabilizer(min_consecutive_frames=3, debounce_time=1.0).  Time  *)
(* is counted in half seconds.                                              *)

\* min_consecutive_frames of the stabilizer
StabFrames == 3

\* debounce_time of the stabilizer, 1.0 s, in half seconds
StabDebounce == 2

\* time.time() when the first update is made, in half seconds: far more
\* than debounce_time after the initial slot_last_change_time 0
StabStart == 100

\* DetectionStabilizer.update is called at most this many times
MaxStabUpdates == 8

\* the slots the stabilizer is asked about
StabSlots == {1, 2}

\* DetectionStabilizer.__init__
NewDetectionStabilizer ==
    [ slot_detection_history |-> << >>,
      slot_last_change_time  |-> << >> ]

\* the last k elements of a list: list[-k:]
LastOf(list, k) ==
    IF Len(list) <= k THEN list ELSE SubSeq(list, Len(list) - k + 1, Len(list))

\* DetectionStabilizer.update that lets a stable status through at any time.
DS_update_NoDebounce(st, slot_id, is_detected, now) ==
    LET hist0  == IF slot_id \in DOMAIN st.slot_detection_history
                  THEN st.slot_detection_history[slot_id] ELSE << >>
        last0  == IF slot_id \in DOMAIN st.slot_last_change_time
                  THEN st.slot_last_change_time[slot_id] ELSE 0
        hist1  == Append(hist0, is_detected)
        hist   == IF Len(hist1) > StabFrames * 2 THEN Tail(hist1) ELSE hist1
        recent == LastOf(hist, StabFrames)
        st1    == [ slot_detection_history |->
                        MapPut(st.slot_detection_history, slot_id, hist),
                    slot_last_change_time |->
                        MapPut(st.slot_last_change_time, slot_id, last0) ]
        all_detected  == \A i \in 1..Len(recent) : recent[i]
        none_detected == \A i \in 1..Len(recent) : ~ recent[i]
    IN  IF Len(recent) < StabFrames
        THEN [st |-> st1, should_update |-> FALSE, new_status |-> is_detected]
        ELSE IF ~ (all_detected \/ none_detected)
        THEN [st |-> st1, should_update |-> FALSE, new_status |-> is_detected]
        ELSE [ st |-> [st1 EXCEPT !.slot_last_change_time[slot_id] = now],
               should_update |-> TRUE, new_status |-> all_detected ]

\* DetectionStabilizer.update(slot_id, is_detected): the stabilizer after
\* the call and the pair returned
DS_update(st, slot_id, is_detected, now) ==
    LET hist0  == IF slot_id \in DOMAIN st.slot_detection_history
                  THEN st.slot_detection_history[slot_id] ELSE << >>
        last0  == IF slot_id \in DOMAIN st.slot_last_change_time
                  THEN st.slot_last_change_time[slot_id] ELSE 0
        hist1  == Append(hist0, is_detected)
        hist   == IF Len(hist1) > StabFrames * 2 THEN Tail(hist1) ELSE hist1
        recent == LastOf(hist, StabFrames)
        st1    == [ slot_detection_history |->
                        MapPut(st.slot_detection_history, slot_id, hist),
                    slot_last_change_time |->
                        MapPut(st.slot_last_change_time, slot_id, last0) ]
        all_detected  == \A i \in 1..Len(recent) : recent[i]
        none_detected == \A i \in 1..Len(recent) : ~ recent[i]
    IN  IF Len(recent) < StabFrames
        THEN [st |-> st1, should_update |-> FALSE, new_status |-> is_detected]
        ELSE IF ~ (all_detected \/ none_detected)
        THEN [st |-> st1, should_update |-> FALSE, new_status |-> is_detected]
        ELSE IF now - last0 < StabDebounce
        THEN [st |-> st1, should_update |-> FALSE, new_status |-> all_detected]
        ELSE [ st |-> [st1 EXCEPT !.slot_last_change_time[slot_id] = now],
               should_update |-> TRUE, new_status |-> all_detected ]

\* stabilizer.update(slot_id, is_detected), half a second after the last
\* call; seen and last_true keep, for each slot, all its observations and
\* the time of its last should_update = True
StabUpdate(slot_id, is_detected) ==
    LET now == StabStart + Len(call.seen[1]) + Len(call.seen[2]) IN
    /\ program = "detection_stabilizer"
    /\ Len(call.seen[1]) + Len(call.seen[2]) < MaxStabUpdates
    /\ \E r \in { DS_update(call.stabilizer, slot_id, is_detected, now) } :
          call' = [ fn         |-> "DetectionStabilizer.update",
                    stabilizer |-> r.st,
                    ret        |-> Some([ slot_id       |-> slot_id,
                                          is_detected   |-> is_detected,
                                          t             |-> now,
                                          should_update |-> r.should_update,
                                          new_status    |-> r.new_status ]),
                    seen       |-> [call.seen EXCEPT ![slot_id] = Append(@, is_detected)],
                    last_true  |-> IF r.should_update
                                   THEN [call.last_true EXCEPT ![slot_id] = Some(now)]
                                   ELSE call.last_true ]
    /\ UNCHANGED <<program, clock, tvVars, tmVars, mvpVars, sfVars, fnVars, apd>>

StabInit ==
    /\ program = "detection_stabilizer"
    /\ clock = StartClock
    /\ tracked_vehicles = << >>
    /\ evals = << >>
    /\ tm = << >>
    /\ scene = << >>
    /\ changes = 0
    /\ accepted = {}
    /\ missed = << >>
    /\ gap = << >>
    /\ mvp = << >>
    /\ obs = << >>
    /\ sfilter = << >> /\ sflog = << >> /\ suppressor = << >> /\ iou_call = << >>
    /\ apd = << >>
    /\ call = [ fn         |-> "DetectionStabilizer.update",
                stabilizer |-> NewDetectionStabilizer,
                ret        |-> None,
                seen       |-> [sl \in StabSlots |-> << >>],
                last_true  |-> [sl \in StabSlots |-> None] ]

StabNext == \E slot_id \in StabSlots, is_detected \in BOOLEAN : StabUpdate(slot_id, is_detected)

\* the calls of DetectionStabilizer.update
SpecStab == StabInit /\ [][StabNext]_vars

(* TrackingManager.reset: a manager that is used, reset and used again,    *)
(* beside a newly constructed manager that is given the same detections.    *)

\* update_trackers is called at most this many times in the reset runs
MaxResetFrames == 6

\* TrackingManager.reset
reset(m) ==
    [m EXCEPT !.active_tracks = << >>,
              !.lost_tracks   = << >>,
              !.total_tracked = 0,
              !.total_lost    = 0,
              !.current_frame = 0]

\* the detections of a frame of the reset runs: identifier 1 or nothing
ResetDetections ==
    { << >> } \cup
    { << [track_id |-> 1, confidence |-> c, center |-> <<StartX, 150>>] >> :
         c \in Confidences }

\* update_trackers(detections) on the manager and, once the manager has
\* been reset, on the new manager too
ResetRunFrame(dets) ==
    LET now == clock + 1 IN
    /\ program = "tracker_reset"
    /\ call.frames < MaxResetFrames
    /\ clock' = now
    /\ tm' = update_trackers(tm, dets, now)
    /\ call' = [call EXCEPT !.frames = call.frames + 1,
                            !.fresh = IF call.fresh = None THEN None
                                      ELSE Some(update_trackers(Val(call.fresh), dets, now))]
    /\ UNCHANGED <<program, tracked_vehicles, evals, scene, changes, accepted, missed,
                   gap, mvpVars, sfVars, fnVars, apd>>

\* manager.reset(), and a TrackingManager() constructed at the same time
ResetCall ==
    /\ program = "tracker_reset"
    /\ call.fresh = None
    /\ tm' = reset(tm)
    /\ call' = [call EXCEPT !.fresh = Some(NewTrackingManager)]
    /\ UNCHANGED <<program, clock, tracked_vehicles, evals, scene, changes, accepted,
                   missed, gap, mvpVars, sfVars, fnVars, apd>>

ResetInit ==
    /\ program = "tracker_reset"
    /\ clock = StartClock
    /\ tracked_vehicles = << >>
    /\ evals = << >>
    /\ tm = NewTrackingManager
    /\ scene = << >>
    /\ changes = 0
    /\ accepted = {}
    /\ missed = << >>
    /\ gap = << >>
    /\ mvp = << >>
    /\ obs = << >>
    /\ sfilter = << >> /\ sflog = << >> /\ suppressor = << >> /\ iou_call = << >>
    /\ apd = << >>
    /\ call = [ fn |-> "TrackingManager.reset", frames |-> 0, fresh |-> None ]

ResetNext ==
    \/ \E dets \in ResetDetections : ResetRunFrame(dets)
    \/ ResetCall

\* the runs of a tracking manager that is reset
SpecReset == ResetInit /\ [][ResetNext]_vars

(* The runs with a parking zone.                                           *)

\* the clock of the runs with a parking zone stops advancing here
MaxZoneClock == 12

\* the vehicle goes undetected in at most this many frames
MaxMisses == 2

\* boxes of the vehicle: inside the rectangle and to the right of it
ZoneBBoxes == { <<100 + dx, 100, 200 + dx, 200>> : dx \in {0, 90} }

\* parking zones: none, and a rectangle
ZoneRect == << <<0, 0>>, <<195, 0>>, <<195, 300>>, <<0, 300>> >>

ParkingZones == { None, Some(ZoneRect) }

\* the box of a second vehicle, standing to the right of the rectangle
CompanyBBox == <<300, 100, 400, 200>>

\* the tracked detections of a frame: vehicle 1 at some box or undetected,
\* and vehicle 2 in every frame if it is there at all
ZoneDetections(company) ==
    LET second == IF company THEN << [tracker_id |-> 2, bbox |-> CompanyBBox] >> ELSE << >>
    IN  { second } \cup { << [tracker_id |-> 1, bbox |-> b] >> \o second : b \in ZoneBBoxes }

\* vehicle 1 drives from left to right: a tracked vehicle is never reported
\* to the left of where it was
DrivesForward(tvs, dets) ==
    \A k \in 1..Len(dets) :
        dets[k].tracker_id \in DOMAIN tvs =>
            dets[k].bbox[1] >= tvs[dets[k].tracker_id].bbox[1]

\* AutomaticParkingDetector.process_frame on the tracked detections dets:
\* update_tracking, then classify_parking_status with the default thresholds
ZoneFrame(dets) ==
    LET now  == clock + 1
        miss == IF \E k \in 1..Len(dets) : dets[k].tracker_id = 1 THEN 0 ELSE 1
    IN
    /\ program = "automatic_detector_zone"
    /\ now <= MaxZoneClock
    /\ apd.misses + miss <= MaxMisses
    /\ DrivesForward(tracked_vehicles, dets)
    /\ \E ut \in { update_tracking_frame(apd.tracker, tracked_vehicles, dets, now) } :
          /\ \E cl \in { classify_parking_status(apd.parking_zone, ut.vehicles,
                             DefaultSpeedThreshold, DefaultTimeThreshold, now) } :
                \* the objects of the list are the objects of the dictionary
                /\ tracked_vehicles' =
                      [id \in DOMAIN ut.tvs |->
                          IF \E k \in 1..Len(cl.vehicles) : cl.vehicles[k].tracker_id = id
                          THEN cl.vehicles[CHOOSE k \in 1..Len(cl.vehicles) :
                                              cl.vehicles[k].tracker_id = id]
                          ELSE ut.tvs[id]] @@ << >>
                /\ apd' = [apd EXCEPT !.misses   = apd.misses + miss,
                                      !.before   = ut.vehicles,
                                      !.vehicles = cl.vehicles,
                                      !.parked   = cl.parked,
                                      !.moving   = cl.moving]
    /\ clock' = now
    /\ UNCHANGED <<program, evals, tmVars, mvpVars, sfVars, fnVars, call>>

ZoneInit ==
    /\ program = "automatic_detector_zone"
    /\ clock = StartClock
    /\ tracked_vehicles = << >>
    /\ evals = << >>
    /\ tm = << >>
    /\ scene = << >>
    /\ changes = 0
    /\ accepted = {}
    /\ missed = << >>
    /\ gap = << >>
    /\ mvp = << >>
    /\ obs = << >>
    /\ sfilter = << >> /\ sflog = << >> /\ suppressor = << >> /\ iou_call = << >>
    /\ call = << >>
    /\ \E zone \in ParkingZones, tracker \in BOOLEAN, company \in BOOLEAN :
          apd = [ parking_zone |-> NewParkingZone(zone),
                  tracker      |-> tracker,
                  company      |-> company,
                  misses       |-> 0,
                  before       |-> << >>,
                  vehicles     |-> << >>,
                  parked       |-> << >>,
                  moving       |-> << >> ]

ZoneNext == \E dets \in ZoneDetections(apd.company) : ZoneFrame(dets)

\* the runs of the automatic detector with a parking zone
SpecZone == ZoneInit /\ [][ZoneNext]_vars

(* The processing loop of main_automatic.                                  *)

\* the clock of the main loop runs stops here
MaxMainClock == 12

\* apply_preset: the thresholds of the presets fast, balanced and accurate
Presets ==
    { [name |-> "fast",     speed_threshold |-> 10, time_threshold |-> 3],
      [name |-> "balanced", speed_threshold |-> 8,  time_threshold |-> 5],
      [name |-> "accurate", speed_threshold |-> 5,  time_threshold |-> 8] }

\* list(tracked_vehicles.values()), in the order of the identifiers
ValuesOf(tvs) ==
    LET order == SetToSeq(DOMAIN tvs) IN [k \in 1..Len(order) |-> tvs[order[k]]]

\* the dictionary after the vehicles of a list were changed in place
ChangedInPlace(tvs, vehicles) ==
    [id \in DOMAIN tvs |->
        IF \E k \in 1..Len(vehicles) : vehicles[k].tracker_id = id
        THEN vehicles[CHOOSE k \in 1..Len(vehicles) : vehicles[k].tracker_id = id]
        ELSE tvs[id]] @@ << >>

\* the identifiers at the given positions of a list of vehicles
IdsAt(vehicles, ks) == { vehicles[ks[i]].tracker_id : i \in 1..Len(ks) }

\* one round of the processing loop for a processed frame: process_frame,
\* then classify_parking_status with the thresholds of the preset on all
\* tracked vehicles; the dictionary after it and the identifiers reported
MainRound(tvs, dets, S, T, now) ==
    LET ut   == update_tracking_frame(TRUE, tvs, dets, now)
        cl1  == classify_parking_status(None, ut.vehicles, DefaultSpeedThreshold,
                                        DefaultTimeThreshold, now)
        tvs1 == ChangedInPlace(ut.tvs, cl1.vehicles)
        all  == ValuesOf(tvs1)
        cl2  == classify_parking_status(None, all, S, T, now)
    IN  [ tvs     |-> ChangedInPlace(tvs1, cl2.vehicles),
          tracked |-> ut.tvs,
          parked  |-> IdsAt(cl2.vehicles, cl2.parked),
          moving  |-> IdsAt(cl2.vehicles, cl2.moving) ]

\* a round of a loop that classifies with the thresholds of the preset only
PresetOnlyRound(tvs, dets, S, T, now) ==
    LET ut  == update_tracking_frame(TRUE, tvs, dets, now)
        all == ValuesOf(ut.tvs)
        cl  == classify_parking_status(None, all, S, T, now)
    IN  [ tvs    |-> ChangedInPlace(ut.tvs, cl.vehicles),
          parked |-> IdsAt(cl.vehicles, cl.parked) ]

\* the time since which check_if_parked has measured a speed below S for
\* vehicle v without a break, given that time before this frame
SlowSince(before, v, S, now) ==
    IF Len(v.positions) >= MinSamples /\ SpeedLT(get_speed_pixels_per_second(v, now), S)
    THEN (IF before = None THEN Some(now) ELSE before)
    ELSE None

\* the next processed frame of the loop, with the tracked detections dets
MainFrame(dets) ==
    LET now  == clock + 1
        miss == IF Len(dets) = 0 THEN 1 ELSE 0
        S    == apd.speed_threshold
        T    == apd.time_threshold
    IN
    /\ program = "main_automatic"
    /\ now <= MaxMainClock
    /\ apd.misses + miss <= MaxMisses
    /\ DrivesForward(tracked_vehicles, dets)
    /\ \E r \in { MainRound(tracked_vehicles, dets, S, T, now) } :
       \E a \in { PresetOnlyRound(apd.alone, dets, S, T, now) } :
          /\ tracked_vehicles' = r.tvs
          /\ apd' = [apd EXCEPT
                !.misses = apd.misses + miss,
                !.parked = r.parked,
                !.moving = r.moving,
                !.alone = a.tvs,
                !.alone_parked = a.parked,
                !.slow_since = [id \in DOMAIN r.tracked |->
                    SlowSince(IF id \in DOMAIN tracked_vehicles
                                   /\ tracked_vehicles[id].first_seen
                                        = r.tracked[id].first_seen
                              THEN apd.slow_since[id] ELSE None,
                              r.tracked[id], S, now)] @@ << >>]
    /\ clock' = now
    /\ UNCHANGED <<program, evals, tmVars, mvpVars, sfVars, fnVars, call>>

MainInit ==
    /\ program = "main_automatic"
    /\ clock = StartClock
    /\ tracked_vehicles = << >>
    /\ evals = << >>
    /\ tm = << >>
    /\ scene = << >>
    /\ changes = 0
    /\ accepted = {}
    /\ missed = << >>
    /\ gap = << >>
    /\ mvp = << >>
    /\ obs = << >>
    /\ sfilter = << >> /\ sflog = << >> /\ suppressor = << >> /\ iou_call = << >>
    /\ call = << >>
    /\ \E preset \in Presets :
          apd = [ preset          |-> preset.name,
                  speed_threshold |-> preset.speed_threshold,
                  time_threshold  |-> preset.time_threshold,
                  misses          |-> 0,
                  parked          |-> {},
                  moving          |-> {},
                  alone           |-> << >>,
                  alone_parked    |-> {},
                  slow_since      |-> << >> ]

MainNext == \E dets \in ZoneDetections(FALSE) : MainFrame(dets)

\* the processing loop of main_automatic
SpecMain == MainInit /\ [][MainNext]_vars

----------------------------------------------------------------------------
(* SmartParkingMVP.process_frame: the smoothing of the vehicle type          *)
(* (src/smart_parking_mvp/smart_parking_mvp.py).                            *)

\* self.history_window: classifications kept per vehicle
history_window == 10

\* process_frame is called at most this many times in the runs of the vote
MaxTypeFrames == 12

\* raw types of the detector (vehicle_type_map)
RawTypes == {"Car", "Truck"}

\* number of times label t occurs in a history
CountOf(history, t) == Cardinality({ i \in 1..Len(history) : history[i] = t })

\* place of the first occurrence of label t in a history
FirstAt(history, t) == CHOOSE i \in 1..Len(history) :
                          history[i] = t /\ \A j \in 1..(i - 1) : history[j] /= t

\* MajorityType that takes the latest label.
MajorityType_Latest(history) == history[Len(history)]

\* "majority vote for stable type": max over type_counts.items() by count;
\* of several labels with the highest count max() returns the one that was
\* put into type_counts first, the one that occurs first in the history
MajorityType(history) ==
    LET types == { history[i] : i \in 1..Len(history) }
        top   == { t \in types : \A u \in types : CountOf(history, t) >= CountOf(history, u) }
    IN  CHOOSE t \in top : \A u \in top : FirstAt(history, t) <= FirstAt(history, u)

\* process_frame, the type history after a box of vehicle track_id with
\* label raw_type: append, keep the last history_window labels
AppendType(type_history, track_id, raw_type) ==
    LET h0 == IF track_id \in DOMAIN type_history THEN type_history[track_id] ELSE << >>
        h1 == Append(h0, raw_type)
        h2 == IF Len(h1) > history_window THEN Tail(h1) ELSE h1
    IN  MapPut(type_history, track_id, h2)

\* process_frame, "clean up history for vehicles no longer in frame"
ForgetAbsent(type_history, current_ids) ==
    [id \in DOMAIN type_history \cap current_ids |-> type_history[id]] @@ << >>

\* SmartParkingMVP.process_frame on a frame whose boxes are those of the
\* vehicle identifiers in labels, with their raw types: the type history
\* and the vehicles returned
TypeFrame(labels) ==
    /\ program = "vehicle_type_vote"
    /\ mvp.frame_count < MaxTypeFrames
    /\ \E hist \in { IF 1 \in DOMAIN labels
                     THEN AppendType(mvp.vehicle_type_history, 1, labels[1])
                     ELSE mvp.vehicle_type_history } :
          /\ mvp' = [ frame_count          |-> mvp.frame_count + 1,
                      vehicle_type_history |-> ForgetAbsent(hist, DOMAIN labels) ]
          /\ call' = [ fn       |-> "process_frame",
                       raw      |-> labels,
                       vehicles |-> [id \in DOMAIN labels |->
                                        [id |-> id, type |-> MajorityType(hist[id])]] @@ << >>,
                       seen     |-> IF 1 \in DOMAIN labels
                                    THEN Append(call.seen, labels[1]) ELSE << >> ]
    /\ UNCHANGED <<program, clock, tvVars, tmVars, obs, sfVars, fnVars, apd>>

TypeInit ==
    /\ program = "vehicle_type_vote"
    /\ clock = StartClock
    /\ tracked_vehicles = << >>
    /\ evals = << >>
    /\ tm = << >>
    /\ scene = << >>
    /\ changes = 0
    /\ accepted = {}
    /\ missed = << >>
    /\ gap = << >>
    /\ mvp = [ frame_count |-> 0, vehicle_type_history |-> << >> ]
    /\ obs = << >>
    /\ sfilter = << >> /\ sflog = << >> /\ suppressor = << >> /\ iou_call = << >>
    /\ call = [ fn |-> "process_frame", raw |-> << >>, vehicles |-> << >>, seen |-> << >> ]
    /\ apd = << >>

TypeNext ==
    \/ TypeFrame(<< >>)
    \/ \E raw_type \in RawTypes : TypeFrame(1 :> raw_type)

\* the runs of the vehicle type vote
SpecType == TypeInit /\ [][TypeNext]_vars

----------------------------------------------------------------------------
(* The repository's programs together.                                     *)

Init == TVInit \/ TMInit \/ OccInit \/ SFInit \/ CrowdInit \/ SuppressInit \/ IoUInit
          \/ MalformedInit \/ ZoneInit \/ TypeInit
          \/ ContainsInit \/ VTInit \/ LotInit
          \/ MainInit \/ StabInit \/ ResetInit

Next == TVNext \/ TMNext \/ OccNext \/ SFNext \/ CrowdNext \/ SuppressNext \/ IoUNext
          \/ MalformedNext \/ ZoneNext \/ TypeNext
          \/ ContainsNext \/ VTNext \/ LotNext
          \/ MainNext \/ StabNext \/ ResetNext

Spec == Init /\ [][Next]_vars

----------------------------------------------------------------------------
(* Properties of TrackedVehicle.check_if_parked                            *)

LastEval == evals[Len(evals)]

\* the vehicles present before and after a step
Persisting == DOMAIN tracked_vehicles \cap DOMAIN tracked_vehicles'

\* the log ends with evaluations, all measuring a speed above k px/s, that
\* span at least d seconds up to now
SustainedAbove(log, k, d, now) ==
    \E i \in 1..Len(log) :
        /\ now - log[i].t >= d
        /\ \A j \in i..Len(log) : log[j].measured /\ SpeedGT(log[j].speed, k)

\* the log ends with evaluations, all measuring a speed below k px/s, that
\* span at least d seconds up to now
SustainedBelow(log, k, d, now) ==
    \E i \in 1..Len(log) :
        /\ now - log[i].t >= d
        /\ \A j \in i..Len(log) : log[j].measured /\ SpeedLT(log[j].speed, k)

\* C1: a PARKED track flips back to not-parked only when its measured speed
\* has been above the exit threshold (15 px/s) at every evaluation over a
\* continuous period of at least the exit duration (3 s).
C1_UnparkOnlyAfterSustainedSpeed ==
    [][ \A id \in Persisting :
          (tracked_vehicles[id].is_parked /\ ~ tracked_vehicles'[id].is_parked)
            => SustainedAbove(evals', ExitSpeed, ExitDuration, clock') ]_vars

\* C2: an evaluation of a PARKED track that measures at most 10 px/s leaves
\* it PARKED with stationary_since and parked_stable_since unchanged.
C2_ParkedHoldsBelowTen ==
    [][ \A id \in Persisting :
          ( /\ tracked_vehicles[id].is_parked
            /\ evals' /= evals
            /\ evals'[Len(evals')].id = id
            /\ ~ SpeedGT(evals'[Len(evals')].speed, 10) )
            => /\ tracked_vehicles'[id].is_parked
               /\ evals'[Len(evals')].ret = TRUE
               /\ tracked_vehicles'[id].stationary_since
                    = tracked_vehicles[id].stationary_since
               /\ tracked_vehicles'[id].parked_stable_since
                    = tracked_vehicles[id].parked_stable_since ]_vars

\* C2 witness: a PARKED track was evaluated twice in a row, first below the
\* entry threshold of 8 px/s and then above it but not above 10 px/s, and
\* is still PARKED.
C2_Witness ==
    /\ Len(evals) >= 2
    /\ evals[Len(evals) - 1].wasParked
    /\ evals[Len(evals) - 1].id = LastEval.id
    /\ SpeedLT(evals[Len(evals) - 1].speed, DefaultSpeedThreshold)
    /\ LastEval.wasParked
    /\ LastEval.measured
    /\ SpeedGT(LastEval.speed, DefaultSpeedThreshold)
    /\ ~ SpeedGT(LastEval.speed, 10)
    /\ tracked_vehicles[LastEval.id].is_parked

\* the bbox of the vehicle never changed since its first frame
FixedBBox(v) == \A i \in 1..Len(v.positions) : v.positions[i].pos = v.positions[1].pos

\* C3: a not-parked track flips to PARKED (setting parked_stable_since) only
\* at an evaluation that ends a run of at least time_threshold seconds of
\* evaluations that all measured a speed below speed_threshold, with the
\* stationary timer running that long; a vehicle whose bbox is fixed from its
\* first frame is PARKED exactly from the first evaluation at which the timer
\* (started with its 5th sample) has reached time_threshold.
C3_ParkOnlyAfterStationaryTime ==
    /\ [][ \A id \in Persisting :
             (~ tracked_vehicles[id].is_parked /\ tracked_vehicles'[id].is_parked)
               => /\ SustainedBelow(evals', DefaultSpeedThreshold,
                                    DefaultTimeThreshold, clock')
                  /\ tracked_vehicles'[id].stationary_since /= None
                  /\ clock' - Val(tracked_vehicles'[id].stationary_since)
                        >= DefaultTimeThreshold
                  /\ tracked_vehicles'[id].parked_stable_since = Some(clock') ]_vars
    /\ [] ( \A id \in DOMAIN tracked_vehicles :
              LET v == tracked_vehicles[id] IN
              FixedBBox(v) =>
                /\ v.is_parked => clock - v.first_seen >= DefaultTimeThreshold
                /\ v.is_parked <=>
                     /\ Len(v.positions) >= MinSamples
                     /\ clock - v.positions[MinSamples].t >= DefaultTimeThreshold )

\* C3 witness: a vehicle whose bbox never moved has just been flipped to PARKED.
C3_Witness ==
    \E id \in DOMAIN tracked_vehicles :
        /\ FixedBBox(tracked_vehicles[id])
        /\ tracked_vehicles[id].is_parked
        /\ tracked_vehicles[id].parked_stable_since = Some(clock)
        /\ LastEval.ret = TRUE /\ ~ LastEval.wasParked

\* an evaluation of a not-parked track with enough samples that measured a
\* speed at or above its speed threshold
MovingEval(e) == e.measured /\ ~ e.wasParked /\ ~ SpeedLT(e.speed, e.S)

\* C4: an evaluation of a not-parked track with enough samples whose speed is
\* at or above speed_threshold sets stationary_since to null and reports not
\* parked, and the track is never PARKED earlier than time_threshold after
\* its most recent such evaluation.
C4_MovingResetsTimer ==
    /\ [][ \A id \in Persisting :
             ( /\ evals' /= evals
               /\ evals'[Len(evals')].id = id
               /\ MovingEval(evals'[Len(evals')]) )
               => /\ tracked_vehicles'[id].stationary_since = None
                  /\ ~ tracked_vehicles'[id].is_parked
                  /\ evals'[Len(evals')].ret = FALSE ]_vars
    /\ [] ( \A id \in DOMAIN tracked_vehicles :
              tracked_vehicles[id].is_parked =>
                \A i \in 1..Len(evals) :
                    (evals[i].id = id /\ MovingEval(evals[i])) =>
                        Val(tracked_vehicles[id].parked_stable_since) - evals[i].t
                            >= evals[i].T )

\* C4 witness: a track that was measured moving is now PARKED.
C4_Witness ==
    \E id \in DOMAIN tracked_vehicles :
        /\ tracked_vehicles[id].is_parked
        /\ \E i \in 1..Len(evals) : evals[i].id = id /\ MovingEval(evals[i])

----------------------------------------------------------------------------
(* Properties of TrackingManager.update_trackers                           *)

\* the step is one update_trackers call
IsFrame == tm'.current_frame = tm.current_frame + 1

\* identifier id is accepted in this step after n frames without acceptance
AcceptedAfter(id, n) == IsFrame /\ id \in accepted' /\ missed[id] = n

\* the track of id after the step is a brand-new VehicleTracker
FreshTrack(id) ==
    /\ id \in DOMAIN tm'.active_tracks
    /\ tm'.active_tracks[id].first_seen = clock'
    /\ Len(tm'.active_tracks[id].positions) = 1
    /\ tm'.active_tracks[id].total_frames = 1
    /\ tm'.total_tracked = tm.total_tracked + 1

\* the track of id after the step is the lost track of id, updated once
RestoredTrack(id) ==
    /\ id \in DOMAIN tm.lost_tracks
    /\ id \in DOMAIN tm'.active_tracks
    /\ id \notin DOMAIN tm'.lost_tracks
    /\ tm'.total_tracked = tm.total_tracked
    /\ LET old == tm.lost_tracks[id].tracker
           new == tm'.active_tracks[id]
       IN  /\ new.track_id = old.track_id
           /\ new.first_seen = old.first_seen
           /\ new.total_frames = old.total_frames + 1
           /\ new.total_distance >= old.total_distance
           /\ Len(new.positions) = Len(old.positions) + 1
           /\ SubSeq(new.positions, 1, Len(old.positions)) = old.positions
           /\ new.positions[Len(new.positions)] = new.current_position
           /\ ~ new.occluded
           /\ \/ /\ new.consecutive_stationary_frames
                      = old.consecutive_stationary_frames + 1
                 /\ new.consecutive_moving_frames = 0
              \/ /\ new.consecutive_moving_frames = old.consecutive_moving_frames + 1
                 /\ new.consecutive_stationary_frames = 0
           /\ (old.stationary_start_time /= None /\ ~ new.is_moving)
                 => /\ new.stationary_start_time = old.stationary_start_time
                    /\ new.park_duration = clock' - Val(old.stationary_start_time)

\* C5: an identifier whose track was not accepted for N consecutive frames,
\* 1 <= N < 30, and is then accepted again gets its old VehicleTracker back
\* from lost_tracks, updated: first_seen, stationary_start_time, position
\* history and total_frames continue and total_tracked is not incremented.
C5_RestoredWithinGrace ==
    [][ \A id \in TMIds : \A n \in 1..(max_lost_frames - 1) :
            AcceptedAfter(id, n) => RestoredTrack(id) ]_vars

\* C5 witness: a track with a stationary timer is active again after it was
\* missing for 10 to 29 frames.
C5_Witness ==
    \E id \in accepted :
        /\ gap[id] >= 10 /\ gap[id] < max_lost_frames
        /\ id \in DOMAIN tm.active_tracks
        /\ tm.active_tracks[id].total_frames > 1
        /\ tm.active_tracks[id].first_seen < clock - gap[id]

\* C6: with consecutive frame numbers, an identifier that was missing for N
\* consecutive frames, N greater than the grace window of 30, and reappears
\* gets a new VehicleTracker; the old tracker is never restored.
C6_NewTrackAfterGrace ==
    [][ \A id \in TMIds :
            (IsFrame /\ id \in accepted' /\ missed[id] > max_lost_frames)
                => FreshTrack(id) ]_vars

\* the same with one more frame of absence: from 32 missed frames on the
\* track is new (not a claim; the boundary of C6)
NewTrackAfter32 ==
    [][ \A id \in TMIds :
            (IsFrame /\ id \in accepted' /\ missed[id] > max_lost_frames + 1)
                => FreshTrack(id) ]_vars

\* a track is new after 32 or more missed frames
NewTrackAfter32_Witness ==
    \E id \in accepted : gap[id] > max_lost_frames + 1 /\ id \in DOMAIN tm.active_tracks

----------------------------------------------------------------------------
(* Properties of the slot occupancy engine (SpecOcc).                      *)

\* the slots of the engine
SlotIx == DOMAIN SlotDefs

\* a frame of the occupancy engine has just been processed
IsOccFrame == mvp'.frame_count = mvp.frame_count + 1

\* what this frame's update_occupancy saw for slot i
ThisObs(i) == obs'[i][Len(obs'[i])]

\* what the frame before saw for slot i
PrevObs(i) == obs[i][Len(obs[i])]

\* the occupant, its timer and the statistics of two slot states agree
SameOccupancy(a, b) ==
    /\ a.occupying_vehicle_id = b.occupying_vehicle_id
    /\ a.occupied_since = b.occupied_since
    /\ a.total_occupancies = b.total_occupancies
    /\ a.total_duration = b.total_duration

(* C7: a vacant slot becomes occupied exactly at the second of two         *)
(* consecutive frames whose best overlap exceeds 0.4, never at the first,   *)
(* and a frame with best overlap of at most 0.4 restarts the count; at the  *)
(* flip the best vehicle becomes the occupant, occupied_since is the time   *)
(* of the frame and total_occupancies grows by one.                         *)
C7_OccupiedOnSecondHighFrame ==
    [][ IsOccFrame =>
          \A i \in SlotIx :
            ~ mvp.slots[i].is_occupied =>
              /\ mvp'.slots[i].is_occupied <=>
                    /\ RatioGT(ThisObs(i).overlap, overlap_threshold)
                    /\ Len(obs[i]) >= 1
                    /\ ~ PrevObs(i).before.is_occupied
                    /\ RatioGT(PrevObs(i).overlap, overlap_threshold)
              /\ mvp'.slots[i].is_occupied =>
                    /\ mvp'.slots[i].occupying_vehicle_id = ThisObs(i).vehicle
                    /\ mvp'.slots[i].occupying_vehicle_id /= None
                    /\ mvp'.slots[i].occupied_since = Some(clock')
                    /\ mvp'.slots[i].total_occupancies =
                           mvp.slots[i].total_occupancies + 1
                    /\ mvp'.slots[i].total_duration = mvp.slots[i].total_duration
    ]_vars

\* a slot has just been taken at the second of two high frames, the count
\* having started from zero at the first of them
C7_Witness ==
    \E i \in SlotIx :
      /\ mvp.frame_count >= 4
      /\ Len(obs[i]) = 2
      /\ ~ obs[i][1].before.is_occupied
      /\ obs[i][1].before.occupied_frames = 0
      /\ obs[i][1].before.total_occupancies = 0
      /\ RatioGT(obs[i][1].overlap, overlap_threshold)
      /\ ~ obs[i][2].before.is_occupied
      /\ RatioGT(obs[i][2].overlap, overlap_threshold)
      /\ mvp.slots[i].is_occupied
      /\ mvp.slots[i].total_occupancies = 1

\* the best overlap of an observation lies in [0.05, 0.2)
BriefDrop(o) == RatioLT(o.overlap, LeaveThreshold) /\ ~ RatioLT(o.overlap, NearZero)

\* slot i was occupied and not yet leaving when the frame before dropped into
\* [0.05, 0.2), and this frame is back at 0.2 or more
DropAndReturn(i) ==
    /\ Len(obs[i]) >= 1
    /\ PrevObs(i).before.is_occupied
    /\ PrevObs(i).before.vacant_frames = 0
    /\ BriefDrop(PrevObs(i))
    /\ ~ RatioLT(ThisObs(i).overlap, LeaveThreshold)

\* slot i was occupied when the frame before had a best overlap below 0.2,
\* and this frame has one too
TwoLowFrames(i) ==
    /\ Len(obs[i]) >= 1
    /\ PrevObs(i).before.is_occupied
    /\ RatioLT(PrevObs(i).overlap, LeaveThreshold)
    /\ RatioLT(ThisObs(i).overlap, LeaveThreshold)

(* C8 as stated: an occupied slot whose best overlap drops for one frame    *)
(* into [0.05, 0.2) and then returns to at least 0.2 stays occupied with    *)
(* the same occupant, occupied_since and statistics; two consecutive        *)
(* frames below 0.2 leave it vacant at the second.                          *)
C8_DropAndReturnKeepsOccupant ==
    [][ IsOccFrame =>
          \A i \in SlotIx :
            /\ DropAndReturn(i) =>
                 /\ mvp'.slots[i].is_occupied
                 /\ SameOccupancy(mvp'.slots[i], PrevObs(i).before)
            /\ TwoLowFrames(i) => ~ mvp'.slots[i].is_occupied
    ]_vars

(* C8, amended: after a one-frame drop into [0.05, 0.2) and a return to at  *)
(* least 0.2 the slot is still occupied; occupant, occupied_since and       *)
(* statistics are those from before the drop when the best-overlap vehicle  *)
(* of the return frame is the occupant, and otherwise that vehicle is the   *)
(* new occupant.  Two consecutive frames below 0.2 leave the slot vacant    *)
(* at the second.                                                           *)
C8_DropAndReturnKeepsSameVehicle ==
    [][ IsOccFrame =>
          \A i \in SlotIx :
            /\ DropAndReturn(i) =>
                 /\ mvp'.slots[i].is_occupied
                 /\ mvp'.slots[i].vacant_frames = 0
                 /\ mvp'.slots[i].occupying_vehicle_id = ThisObs(i).vehicle
                 /\ ThisObs(i).vehicle = PrevObs(i).before.occupying_vehicle_id
                       => SameOccupancy(mvp'.slots[i], PrevObs(i).before)
            /\ TwoLowFrames(i) => ~ mvp'.slots[i].is_occupied
    ]_vars

\* the occupant came back after a one-frame drop and the slot kept its state
C8_Witness ==
    \E i \in SlotIx :
      /\ Len(obs[i]) = 2
      /\ obs[i][1].before.is_occupied
      /\ obs[i][1].before.vacant_frames = 0
      /\ BriefDrop(obs[i][1])
      /\ obs[i][2].before.vacant_frames = 1
      /\ ~ RatioLT(obs[i][2].overlap, LeaveThreshold)
      /\ obs[i][2].vehicle = obs[i][1].before.occupying_vehicle_id
      /\ mvp.slots[i].is_occupied
      /\ SameOccupancy(mvp.slots[i], obs[i][1].before)
      /\ Val(mvp.slots[i].occupied_since) < obs[i][1].t

(* C9: a frame whose best overlap is below 0.05 turns an occupied slot      *)
(* vacant in that very frame: occupying_vehicle_id and occupied_since are   *)
(* cleared and the time since occupied_since is added to total_duration.    *)
C9_NearZeroVacatesAtOnce ==
    [][ IsOccFrame =>
          \A i \in SlotIx :
            (mvp.slots[i].is_occupied /\ RatioLT(ThisObs(i).overlap, NearZero)) =>
              /\ ~ mvp'.slots[i].is_occupied
              /\ mvp'.slots[i].occupying_vehicle_id = None
              /\ mvp'.slots[i].occupied_since = None
              /\ mvp'.slots[i].total_duration =
                     mvp.slots[i].total_duration
                       + (clock' - Val(mvp.slots[i].occupied_since))
              /\ mvp'.slots[i].total_occupancies = mvp.slots[i].total_occupancies
    ]_vars

\* a slot that was occupied with no vacant frame counted has just been
\* vacated by a single frame below 0.05
C9_Witness ==
    \E i \in SlotIx :
      /\ Len(obs[i]) >= 1
      /\ obs[i][Len(obs[i])].before.is_occupied
      /\ obs[i][Len(obs[i])].before.vacant_frames = 0
      /\ RatioLT(obs[i][Len(obs[i])].overlap, NearZero)
      /\ obs[i][Len(obs[i])].overlap.num > 0
      /\ ~ mvp.slots[i].is_occupied
      /\ mvp.slots[i].total_duration > 0

\* the occupant of slot i is replaced in this frame, the slot staying occupied
Substituted(i) ==
    /\ mvp.slots[i].is_occupied
    /\ mvp'.slots[i].is_occupied
    /\ mvp'.slots[i].occupying_vehicle_id /= mvp.slots[i].occupying_vehicle_id

(* C10: on an occupied slot the occupant is replaced without a vacant       *)
(* state in between only when a vehicle with another identifier is the      *)
(* best-overlap vehicle and its overlap is above 0.4; then the elapsed      *)
(* duration is added to total_duration, occupied_since restarts and         *)
(* total_occupancies grows by one.  The same identifier, or another         *)
(* vehicle whose overlap is not above 0.4, leaves occupant and timer        *)
(* unchanged.                                                               *)
C10_SubstitutionOnlyAboveHighThreshold ==
    [][ IsOccFrame =>
          \A i \in SlotIx :
            mvp.slots[i].is_occupied =>
              /\ Substituted(i) =>
                   /\ ThisObs(i).vehicle /= None
                   /\ ThisObs(i).vehicle /= mvp.slots[i].occupying_vehicle_id
                   /\ RatioGT(ThisObs(i).overlap, overlap_threshold)
                   /\ mvp'.slots[i].occupying_vehicle_id = ThisObs(i).vehicle
                   /\ mvp'.slots[i].total_duration =
                          mvp.slots[i].total_duration
                            + (clock' - Val(mvp.slots[i].occupied_since))
                   /\ mvp'.slots[i].occupied_since = Some(clock')
                   /\ mvp'.slots[i].total_occupancies =
                          mvp.slots[i].total_occupancies + 1
              /\ (/\ mvp'.slots[i].is_occupied
                  /\ \/ ThisObs(i).vehicle = mvp.slots[i].occupying_vehicle_id
                     \/ ~ RatioGT(ThisObs(i).overlap, overlap_threshold))
                   => /\ mvp'.slots[i].occupying_vehicle_id =
                             mvp.slots[i].occupying_vehicle_id
                      /\ mvp'.slots[i].occupied_since = mvp.slots[i].occupied_since
    ]_vars

(* What the code does hold to: the occupant is replaced exactly when the    *)
(* best overlap is at least 0.2 and the best vehicle is not the occupant.   *)
SubstitutionFromLeaveThreshold ==
    [][ IsOccFrame =>
          \A i \in SlotIx :
            mvp.slots[i].is_occupied =>
              (Substituted(i) <=>
                 /\ ~ RatioLT(ThisObs(i).overlap, LeaveThreshold)
                 /\ ThisObs(i).vehicle /= mvp.slots[i].occupying_vehicle_id)
    ]_vars

\* a vehicle with an overlap of at most 0.4 has just replaced the occupant
SubstitutionBelowHigh_Witness ==
    \E i \in SlotIx :
      /\ Len(obs[i]) >= 1
      /\ obs[i][Len(obs[i])].before.is_occupied
      /\ ~ RatioGT(obs[i][Len(obs[i])].overlap, overlap_threshold)
      /\ mvp.slots[i].is_occupied
      /\ mvp.slots[i].occupying_vehicle_id = obs[i][Len(obs[i])].vehicle
      /\ mvp.slots[i].occupying_vehicle_id
             /= obs[i][Len(obs[i])].before.occupying_vehicle_id

----------------------------------------------------------------------------
(* Properties of StabilityFilter.filter_detections (SpecSF).               *)

\* the detection of the last call was let through
Passed(log, id) == \E i \in 1..Len(log.stable) : log.stable[i].track_id = id

\* the confidence with which id was detected in the last call
DetectedConfidence(log, id) ==
    (CHOOSE d \in { log.dets[i] : i \in 1..Len(log.dets) } : d.track_id = id).confidence

\* id was detected in the last call with no retained history and a
\* confidence above 0.6
BrandNewHighConfidence(log, id) ==
    /\ id \in IdsOf(log.dets)
    /\ id \notin DOMAIN log.before
    /\ DetectedConfidence(log, id) > NewTrackConfidence

(* C11: a detection that is not accepted as a brand-new high-confidence     *)
(* identifier is passed only if its identifier was detected in at least 3   *)
(* consecutive frames, the current one and the two before it, and the mean  *)
(* confidence of its retained history is above 0.35.                        *)
C11_PassedOnlyAfterThreeInARow ==
    \A id \in SFIds :
      (Passed(sflog, id) /\ ~ BrandNewHighConfidence(sflog, id)) =>
         /\ sflog.streak[id] >= min_consistent_frames
         /\ SumSeq(sfilter[id]) > AvgConfidenceFloor * Len(sfilter[id])

(* What the filter holds to: a detection that is not brand-new and         *)
(* high-confidence is passed exactly when the retained history, whatever    *)
(* frames its entries come from, has at least 3 entries with a mean above   *)
(* 0.35.                                                                    *)
PassedOnThreeRetained ==
    \A id \in SFIds :
      (id \in IdsOf(sflog.dets) /\ ~ BrandNewHighConfidence(sflog, id)) =>
         (Passed(sflog, id) <=>
            /\ Len(sfilter[id]) >= min_consistent_frames
            /\ SumSeq(sfilter[id]) > AvgConfidenceFloor * Len(sfilter[id]))

\* an identifier was passed in the frame in which it came back from an absence
PassedOnReturn_Witness ==
    \E id \in SFIds :
      /\ Passed(sflog, id)
      /\ ~ BrandNewHighConfidence(sflog, id)
      /\ sflog.streak[id] = 1

(* C12: a detection whose identifier has no retained history is passed in   *)
(* the same frame exactly when its confidence is above 0.6.                 *)
C12_NewIdentifierNeedsHighConfidence ==
    \A id \in SFIds :
      (id \in IdsOf(sflog.dets) /\ id \notin DOMAIN sflog.before) =>
         (Passed(sflog, id) <=> DetectedConfidence(sflog, id) > NewTrackConfidence)

\* an identifier whose full history had been dropped came back with high
\* confidence and was passed at once
C12_Witness ==
    \E id \in SFIds :
      /\ sflog.frames >= history_length + 2
      /\ id \in IdsOf(sflog.dets)
      /\ id \notin DOMAIN sflog.before
      /\ DetectedConfidence(sflog, id) > NewTrackConfidence
      /\ Passed(sflog, id)
      /\ Len(sfilter[id]) = 1

----------------------------------------------------------------------------
(* Properties of the lost set of TrackingManager (SpecTM).                  *)

(* C13: after an update_trackers call every track that was active before    *)
(* it and is not among the accepted detections is in lost_tracks and not in *)
(* active_tracks, tagged occluded, with the current frame number recorded   *)
(* and every other field as it was; a track that stays lost keeps its       *)
(* entry unchanged.                                                         *)
C13_MissingTrackMovesToLost ==
    [][ IsFrame =>
          /\ \A id \in DOMAIN tm.active_tracks \ accepted' :
               /\ id \notin DOMAIN tm'.active_tracks
               /\ id \in DOMAIN tm'.lost_tracks
               /\ tm'.lost_tracks[id].lost_frame = tm'.current_frame
               /\ tm'.lost_tracks[id].tracker.occluded
               /\ tm'.lost_tracks[id].tracker =
                      [tm.active_tracks[id] EXCEPT !.occluded = TRUE]
          /\ \A id \in DOMAIN tm.lost_tracks \cap DOMAIN tm'.lost_tracks :
               tm'.lost_tracks[id] = tm.lost_tracks[id]
    ]_vars

\* a track that was moving when it went missing has been lost for some
\* frames and still carries its motion state and history
C13_Witness ==
    \E id \in TMIds :
      /\ id \in DOMAIN tm.lost_tracks
      /\ id \notin DOMAIN tm.active_tracks
      /\ missed[id] >= 3
      /\ tm.lost_tracks[id].lost_frame = tm.current_frame - missed[id] + 1
      /\ tm.lost_tracks[id].tracker.occluded
      /\ tm.lost_tracks[id].tracker.is_moving
      /\ tm.lost_tracks[id].tracker.status = "MOVING"
      /\ Len(tm.lost_tracks[id].tracker.positions) >= 4

\* the identifiers whose lost track is dropped in this step
Evicted ==
    DOMAIN tm.lost_tracks \ (DOMAIN tm'.lost_tracks \cup DOMAIN tm'.active_tracks)

(* C16: after update_trackers at frame g no lost track has a recorded lost  *)
(* frame f with g - f > 30; every eviction adds one to total_lost, and an   *)
(* evicted track is returned neither by get_tracker nor by                  *)
(* get_all_trackers.                                                        *)
C16_LostTracksWithinGrace ==
    /\ [](\A id \in DOMAIN tm.lost_tracks :
             tm.current_frame - tm.lost_tracks[id].lost_frame <= max_lost_frames)
    /\ [][ IsFrame =>
             /\ tm'.total_lost = tm.total_lost + Cardinality(Evicted)
             /\ \A id \in Evicted :
                  /\ tm'.current_frame - tm.lost_tracks[id].lost_frame > max_lost_frames
                  /\ get_tracker(tm', id) = None
                  /\ id \notin DOMAIN get_all_trackers(tm')
       ]_vars

\* a lost track has been evicted and counted, and is no longer to be found
C16_Witness ==
    \E id \in TMIds :
      /\ tm.total_tracked = 1
      /\ tm.total_lost = 1
      /\ missed[id] > max_lost_frames
      /\ get_tracker(tm, id) = None
      /\ id \notin DOMAIN get_all_trackers(tm)

----------------------------------------------------------------------------
(* Properties of the track cap (SpecCrowd).                                 *)

\* id has a brand-new VehicleTracker after the step
FreshTrackOf(id) ==
    /\ id \in DOMAIN tm'.active_tracks
    /\ tm'.active_tracks[id].first_seen = clock'
    /\ Len(tm'.active_tracks[id].positions) = 1
    /\ tm'.active_tracks[id].total_frames = 1

\* id is accepted in this step and is neither active nor lost before it
Unknown(id) ==
    /\ id \in accepted'
    /\ id \notin DOMAIN tm.active_tracks
    /\ id \notin DOMAIN tm.lost_tracks

\* the identifiers in active_tracks at the moment this step's update_trackers
\* call comes to the detection of id: those active before the call and those
\* restored or created for an earlier detection (detections are handled in
\* identifier order)
ActiveWhenHandled(id) ==
    DOMAIN tm.active_tracks
      \cup { j \in accepted' : j < id /\ j \in DOMAIN tm'.active_tracks }

\* the accepted detections that find the cap reached
TurnedAway ==
    { id \in accepted' :
         Unknown(id) /\ Cardinality(ActiveWhenHandled(id)) >= MAX_TRACKED_VEHICLES }

\* a detection of id as the full scene delivers it
CrowdDetection(id) ==
    [ track_id |-> id, confidence |-> CrowdConfidence, center |-> <<StartX, 150>> ]

(* C14: after any sequence of update_trackers calls active_tracks holds at  *)
(* most MAX_TRACKED_VEHICLES (30) tracks.                                   *)
C14_ActiveTracksWithinCap ==
    Cardinality(DOMAIN tm.active_tracks) <= MAX_TRACKED_VEHICLES

(* C15: when active_tracks already holds 30 tracks, the round of           *)
(* update_trackers for an accepted detection whose identifier is neither    *)
(* active nor lost changes nothing: no track is created, total_tracked and  *)
(* every existing track stay as they are.  Such an identifier has no track  *)
(* after the call, and an unknown identifier that is accepted while fewer   *)
(* than 30 tracks are active gets a new one.                                *)
C15_NewIdentifierDroppedAtCap ==
    /\ [](Cardinality(DOMAIN tm.active_tracks) >= MAX_TRACKED_VEHICLES =>
            \A id \in CrowdIds \ (DOMAIN tm.active_tracks \cup DOMAIN tm.lost_tracks) :
               UpdateOne(tm, CrowdDetection(id), clock) = tm)
    /\ [][ IsFrame =>
             LET turned == TurnedAway
                 new    == { id \in accepted' : Unknown(id) }
             IN  /\ \A id \in turned :
                      /\ id \notin DOMAIN tm'.active_tracks
                      /\ id \notin DOMAIN tm'.lost_tracks
                 /\ \A id \in new \ turned : FreshTrackOf(id)
                 /\ tm'.total_tracked = tm.total_tracked + Cardinality(new \ turned)
       ]_vars

\* a vehicle that was turned away at the cap, accepted at its first detection
\* two frames ago, has just got its track
C15_Witness ==
    /\ tm.total_tracked = MAX_TRACKED_VEHICLES + 1
    /\ MAX_TRACKED_VEHICLES + 1 \in DOMAIN tm.active_tracks
    /\ tm.active_tracks[MAX_TRACKED_VEHICLES + 1].first_seen = clock
    /\ Len(tm.detection_history[MAX_TRACKED_VEHICLES + 1]) = 3

----------------------------------------------------------------------------
(* Properties of remove_duplicate_detections and calculate_iou.            *)

\* the detections of a list, as a set
Members(dets) == { dets[i] : i \in 1..Len(dets) }

\* the IoU of two detections is above the call's threshold
Overlapping(d, e) ==
    RatioGT(calculate_iou(d.bbox, e.bbox), suppressor.iou_threshold)

\* the first call has returned
Suppressed == program = "remove_duplicate_detections" /\ suppressor.kept /= None

C18_SecondCallChangesNothing ==
    (program = "remove_duplicate_detections" /\ suppressor.kept_again /= None) =>
        suppressor.kept_again = suppressor.kept

\* a second call on an output of two equal-confidence detections that the
\* first call took from three, the input not being in descending order
C18_Witness ==
    /\ program = "remove_duplicate_detections"
    /\ suppressor.kept_again /= None
    /\ Len(suppressor.detections) = 3
    /\ suppressor.detections[1].confidence < suppressor.detections[3].confidence
    /\ Len(Val(suppressor.kept)) = 2
    /\ Val(suppressor.kept)[1].confidence = Val(suppressor.kept)[2].confidence

\* detections i < j of the input have equal confidence and an IoU above the
\* threshold
TiedOverlap(L, i, j) ==
    /\ i < j
    /\ L[i].confidence = L[j].confidence
    /\ Overlapping(L[i], L[j])

\* detection k is handled before detection d by the loop: higher confidence,
\* or equal confidence and earlier in the input
HandledBefore(k, d) ==
    \/ k.confidence > d.confidence
    \/ k.confidence = d.confidence /\ k.track_id < d.track_id

\* equal-confidence detections of the output are in their input order
TiesKeepInputOrder(K) ==
    \A a, b \in 1..Len(K) :
        (a < b /\ K[a].confidence = K[b].confidence) => K[a].track_id < K[b].track_id

\* C19: of two detections with equal confidence and an IoU above the
\* threshold the one that comes first in the input is kept and the later one
\* is dropped; equal-confidence survivors keep their input order.
C19_FirstOfTieKept ==
    Suppressed =>
        LET L == suppressor.detections
            K == Val(suppressor.kept)
        IN  /\ \A i, j \in 1..Len(L) :
                  TiedOverlap(L, i, j) => L[i] \in Members(K) /\ L[j] \notin Members(K)
            /\ TiesKeepInputOrder(K)

\* C19 as the code has it: of two such detections the later one is dropped
\* whenever the first is kept, and the first is kept unless it has an IoU
\* above the threshold with a kept detection handled before it (then the later
\* one may be kept); equal-confidence survivors keep their input order.
C19_FirstOfTieKeptUnlessDuplicate ==
    Suppressed =>
        LET L == suppressor.detections
            K == Val(suppressor.kept)
        IN  /\ \A i, j \in 1..Len(L) :
                  TiedOverlap(L, i, j) =>
                     /\ L[i] \in Members(K) => L[j] \notin Members(K)
                     /\ L[i] \notin Members(K) =>
                           \E k \in Members(K) : HandledBefore(k, L[i]) /\ Overlapping(k, L[i])
            /\ TiesKeepInputOrder(K)

\* three detections of equal confidence, none overlapping another kept one
\* in between: the first of a tied overlapping pair is kept, the second
\* dropped, and the survivors are in input order
C19_Witness ==
    /\ Suppressed
    /\ Len(suppressor.detections) = 3
    /\ TiedOverlap(suppressor.detections, 1, 3)
    /\ suppressor.detections[2].confidence = suppressor.detections[1].confidence
    /\ Val(suppressor.kept) = << suppressor.detections[1], suppressor.detections[2] >>

\* a tied overlapping pair whose first detection is dropped as the duplicate
\* of a higher-confidence detection and whose second detection is kept
TieWonByLater_Witness ==
    /\ Suppressed
    /\ \E i, j \in 1..Len(suppressor.detections) :
          /\ TiedOverlap(suppressor.detections, i, j)
          /\ suppressor.detections[i] \notin Members(Val(suppressor.kept))
          /\ suppressor.detections[j] \in Members(Val(suppressor.kept))

\* C20: for boxes with x2 > x1 and y2 > y1, calculate_iou(A, B) equals
\* calculate_iou(B, A), lies between 0 and 1, and calculate_iou(A, A) is 1.
C20_IoUSymmetricAndBounded ==
    (program = "calculate_iou" /\ iou_call.ab /= None) =>
        LET ab == Val(iou_call.ab)
            ba == Val(iou_call.ba)
            aa == Val(iou_call.aa)
        IN  /\ ab.den > 0 /\ ba.den > 0 /\ aa.den > 0
            /\ ab.num * ba.den = ba.num * ab.den
            /\ 0 <= ab.num /\ ab.num <= ab.den
            /\ aa.num = aa.den

\* two boxes of different area that overlap in part: IoU strictly between 0 and 1
C20_Witness ==
    /\ program = "calculate_iou"
    /\ iou_call.ab /= None
    /\ (iou_call.A[3] - iou_call.A[1]) * (iou_call.A[4] - iou_call.A[2])
          /= (iou_call.B[3] - iou_call.B[1]) * (iou_call.B[4] - iou_call.B[2])
    /\ 0 < Val(iou_call.ab).num
    /\ Val(iou_call.ab).num < Val(iou_call.ab).den

----------------------------------------------------------------------------
(* Properties of the geometry functions on malformed input (SpecMalformed). *)

\* the box has zero or negative width or height
NoExtent(b) == b[3] <= b[1] \/ b[4] <= b[2]

\* the boxes share no area
DisjointBoxes(a, b) ==
    \/ Min(a[3], b[3]) <= Max(a[1], b[1])
    \/ Min(a[4], b[4]) <= Max(a[2], b[2])

\* the polygon of a slot has zero area
FlatPolygon(slot) ==
    LET r == RectOf(slot.points) IN r[3] = r[1] \/ r[4] = r[2]

\* the value is the number 0, and no division by zero has been made for it
IsZero(r) == r.den > 0 /\ r.num = 0

\* C21: calculate_iou returns 0 when the boxes are disjoint or one of them
\* has zero or negative width or height; check_overlap returns 0.0 for a
\* vehicle box of zero area; a slot whose polygon has zero area is never
\* occupied, whatever update_occupancy calls are made.
C21_MalformedGeometryGivesZero ==
    program = "malformed_geometry" =>
        /\ (call.fn = "calculate_iou" /\ call.result /= None
              /\ (DisjointBoxes(call.A, call.B) \/ NoExtent(call.A) \/ NoExtent(call.B)))
             => IsZero(Val(call.result))
        /\ (call.fn = "check_overlap" /\ call.result /= None
              /\ (call.bbox[3] - call.bbox[1]) * (call.bbox[4] - call.bbox[2]) = 0)
             => IsZero(Val(call.result))
        /\ call.fn = "update_occupancy"
             => \A i \in DOMAIN mvp.slots :
                   FlatPolygon(mvp.slots[i]) =>
                      /\ ~ mvp.slots[i].is_occupied
                      /\ mvp.slots[i].total_occupancies = 0
                      /\ \A k \in 1..Len(obs[i]) : IsZero(obs[i][k].overlap)

\* three frames in a row with a vehicle covering the collapsed slots, which
\* are still vacant
C21_Witness ==
    /\ program = "malformed_geometry"
    /\ call.fn = "update_occupancy"
    /\ Len(call.frames) >= 3
    /\ \A k \in (Len(call.frames) - 2)..Len(call.frames) :
          call.frames[k] = << [id |-> 1, bbox |-> <<0, 0, 100, 100>>] >>
    /\ \A i \in DOMAIN mvp.slots : FlatPolygon(mvp.slots[i]) /\ ~ mvp.slots[i].is_occupied

\* calculate_iou has returned for a box of negative width and height that
\* lies on the other box
ZeroForInvertedBox_Witness ==
    /\ program = "malformed_geometry"
    /\ call.fn = "calculate_iou"
    /\ call.result /= None
    /\ call.A = <<100, 100, 0, 0>>
    /\ call.B = <<0, 0, 100, 100>>

----------------------------------------------------------------------------
(* Properties of the automatic detector with a parking zone (SpecZone).     *)

\* a frame has been processed
ZoneRun == program = "automatic_detector_zone" /\ clock > StartClock

\* the center of the box is in the parking zone of the run: there is no
\* zone, or it lies in the rectangle, edges included
CenterInZone(bbox) ==
    \/ apd.parking_zone = None
    \/ LET c == get_center(bbox)
       IN  /\ 0 <= c[1] /\ c[1] <= 195
           /\ 0 <= c[2] /\ c[2] <= 300

\* position k of the list of vehicles is in the list
Listed(list, k) == \E i \in 1..Len(list) : list[i] = k

\* the vehicle has the samples for a speed estimate, but fewer than 5 of
\* them in the trailing window
FewRecent(v) ==
    /\ Len(v.positions) >= MinSamples
    /\ Len(RecentPositions(v, clock)) < MinSamples

\* C22: check_if_parked on a vehicle with at least 5 samples of which fewer
\* than 5 fall within the trailing 5 seconds returns the previous is_parked
\* and leaves is_parked, stationary_since and parked_stable_since as they were.
C22_UnknownSpeedHoldsDecision ==
    ZoneRun =>
        \A k \in 1..Len(apd.before) :
            (CenterInZone(apd.before[k].bbox) /\ FewRecent(apd.before[k])) =>
                /\ apd.vehicles[k] = apd.before[k]
                /\ Listed(apd.parked, k) <=> apd.before[k].is_parked

\* C23: check_if_parked on a vehicle with fewer than 5 samples returns
\* is_parked as it is and changes no field of the vehicle.
C23_ShortHistoryHoldsDecision ==
    ZoneRun =>
        \A k \in 1..Len(apd.before) :
            (CenterInZone(apd.before[k].bbox) /\ Len(apd.before[k].positions) < MinSamples) =>
                /\ apd.vehicles[k] = apd.before[k]
                /\ Listed(apd.parked, k) <=> apd.before[k].is_parked
                /\ Listed(apd.moving, k) <=> ~ apd.before[k].is_parked

\* a tracked vehicle with 4 samples, not all at the same place, has been
\* classified and is as it was
C23_Witness ==
    /\ ZoneRun
    /\ apd.tracker
    /\ \E k \in 1..Len(apd.before) :
          /\ CenterInZone(apd.before[k].bbox)
          /\ Len(apd.before[k].positions) = MinSamples - 1
          /\ NumMoves(apd.before[k].positions) > 0
          /\ Listed(apd.moving, k)

\* C26: classify_parking_status puts every vehicle whose center is in the
\* zone into exactly one list, parked if check_if_parked returns true for it
\* and moving otherwise; a vehicle whose center is outside is in neither list
\* and is not changed by the call.
C26_ZoneDecidesWhoIsClassified ==
    ZoneRun =>
        \A k \in 1..Len(apd.before) :
            LET v == apd.before[k] IN
            /\ CenterInZone(v.bbox) =>
                  /\ Listed(apd.parked, k) /= Listed(apd.moving, k)
                  /\ Listed(apd.parked, k) <=>
                        check_if_parked(v, DefaultSpeedThreshold,
                                        DefaultTimeThreshold, clock).ret
            /\ ~ CenterInZone(v.bbox) =>
                  /\ ~ Listed(apd.parked, k)
                  /\ ~ Listed(apd.moving, k)
                  /\ apd.vehicles[k] = v

\* vehicle 1 is reported parked in the zone while vehicle 2, outside of it
\* with a history of 5 and more samples, is in neither list
C26_Witness ==
    /\ ZoneRun
    /\ apd.parking_zone /= None
    /\ Len(apd.vehicles) = 2
    /\ apd.parked = <<1>>
    /\ apd.moving = << >>
    /\ ~ CenterInZone(apd.vehicles[2].bbox)
    /\ Len(apd.vehicles[2].positions) >= MinSamples
    /\ apd.vehicles[2].stationary_since = None

\* a vehicle that parked in the zone has left it: it is in neither list and
\* still has is_parked set
ParkedOutsideZone_Witness ==
    /\ ZoneRun
    /\ \E k \in 1..Len(apd.vehicles) :
          /\ ~ CenterInZone(apd.vehicles[k].bbox)
          /\ apd.vehicles[k].is_parked
          /\ ~ Listed(apd.parked, k)

\* C29: without a tracker the vehicles of every frame are new TrackedVehicle
\* objects with tracker_id -1 and a single history sample, tracked_vehicles
\* stays empty, and no vehicle is reported parked.
C29_FallbackIsStateless ==
    (ZoneRun /\ ~ apd.tracker) =>
        /\ tracked_vehicles = << >>
        /\ apd.parked = << >>
        /\ \A k \in 1..Len(apd.vehicles) :
              /\ apd.vehicles[k].tracker_id = NoTrackerId
              /\ Len(apd.vehicles[k].positions) = 1
              /\ apd.vehicles[k].first_seen = clock
              /\ ~ apd.vehicles[k].is_parked
              /\ apd.vehicles[k].stationary_since = None

\* without a tracker, eleven frames with two vehicles in the zone: both are
\* reported moving
C29_Witness ==
    /\ ZoneRun
    /\ ~ apd.tracker
    /\ clock >= StartClock + 11
    /\ apd.moving = <<1, 2>>

----------------------------------------------------------------------------
(* The state of a TrackedVehicle (SpecTV).                                  *)

\* C28: in every state a TrackedVehicle reaches, is_parked implies that
\* stationary_since and parked_stable_since are both set, and a vehicle that
\* is not parked has no parked_stable_since.
C28_ParkedFieldsConsistent ==
    program = "automatic_detector" =>
        \A id \in DOMAIN tracked_vehicles :
            LET v == tracked_vehicles[id] IN
            /\ v.is_parked => v.stationary_since /= None /\ v.parked_stable_since /= None
            /\ ~ v.is_parked => v.parked_stable_since = None

\* a vehicle that was parked and has been un-parked by check_if_parked: all
\* three fields are cleared
C28_Witness ==
    /\ program = "automatic_detector"
    /\ \E id \in DOMAIN tracked_vehicles :
          /\ ~ tracked_vehicles[id].is_parked
          /\ tracked_vehicles[id].stationary_since = None
          /\ tracked_vehicles[id].parked_stable_since = None
          /\ \E i \in 1..Len(evals) :
                evals[i].id = id /\ evals[i].wasParked /\ ~ evals[i].ret

----------------------------------------------------------------------------
(* The debounce counters of a slot (SpecOcc).                               *)

\* slot i makes a transition in this frame: it becomes occupied, becomes
\* vacant, or changes its occupant
Transition(i) ==
    \/ mvp.slots[i].is_occupied /= mvp'.slots[i].is_occupied
    \/ Substituted(i)

(* C24: after every transition of a slot made by update_occupancy both      *)
(* debounce counters of the slot, occupied_frames and vacant_frames, are 0. *)
C24_TransitionResetsBothCounters ==
    [][ IsOccFrame =>
          \A i \in SlotIx :
            Transition(i) =>
              /\ mvp'.slots[i].occupied_frames = 0
              /\ mvp'.slots[i].vacant_frames = 0
    ]_vars

(* What the code holds to: a slot that becomes occupied or changes its      *)
(* occupant has vacant_frames 0 and keeps occupied_frames; a slot that       *)
(* becomes vacant has occupied_frames 0 and keeps the vacant_frames counted  *)
(* in that frame.                                                           *)
TransitionResetsOtherCounter ==
    [][ IsOccFrame =>
          \A i \in SlotIx :
            /\ (Transition(i) /\ mvp'.slots[i].is_occupied) =>
                  /\ mvp'.slots[i].vacant_frames = 0
                  /\ ~ mvp.slots[i].is_occupied => mvp'.slots[i].occupied_frames = ConfirmFrames
            /\ (Transition(i) /\ ~ mvp'.slots[i].is_occupied) =>
                  /\ mvp'.slots[i].occupied_frames = 0
                  /\ mvp'.slots[i].vacant_frames = mvp.slots[i].vacant_frames + 1
    ]_vars

\* a slot that has just become occupied, with occupied_frames still at 2
StaleCounter_Witness ==
    /\ program = "smart_parking_mvp"
    /\ \E i \in SlotIx :
          /\ mvp.slots[i].is_occupied
          /\ mvp.slots[i].occupied_since = Some(clock)
          /\ mvp.slots[i].occupied_frames = ConfirmFrames

----------------------------------------------------------------------------
(* Properties of the vehicle type vote (SpecType).                          *)

\* vehicle 1 is among the vehicles of the last frame; call.seen holds its
\* raw labels since it was last absent
TypeVoted == program = "vehicle_type_vote" /\ 1 \in DOMAIN call.vehicles

\* C25: the type process_frame reports for an identifier seen in
\* consecutive frames has the highest count among the raw labels of its
\* last 10 frames, of which no more than 10 are retained; where all labels
\* of the window but one are the same, that same type is reported.
C25_ReportedTypeIsMostFrequent ==
    TypeVoted =>
        LET history  == mvp.vehicle_type_history[1]
            reported == call.vehicles[1].type
            n        == Len(call.seen)
        IN  /\ history = SubSeq(call.seen, Max(1, n - history_window + 1), n)
            /\ \A t \in RawTypes : CountOf(history, reported) >= CountOf(history, t)
            /\ \A t \in RawTypes :
                  (CountOf(history, t) = Len(history) - 1 /\ CountOf(history, t) >= 2)
                     => reported = t

\* a full window of ten labels, nine of one type and the latest of another:
\* the type of the nine is reported
C25_Witness ==
    /\ TypeVoted
    /\ Len(call.seen) > history_window
    /\ Len(mvp.vehicle_type_history[1]) = history_window
    /\ call.raw[1] = "Truck"
    /\ CountOf(mvp.vehicle_type_history[1], "Car") = history_window - 1
    /\ call.vehicles[1].type = "Car"

----------------------------------------------------------------------------
(* Properties of ParkingZone.contains_bbox (SpecContains).                  *)

\* the point lies inside or on the boundary of the polygon of the shape
InsideOrOn(shape, p) ==
    CASE shape = "square"       -> 0 <= p[1] /\ p[1] <= 100 /\ 0 <= p[2] /\ p[2] <= 100
      [] shape = "small_square" -> 0 <= p[1] /\ p[1] <= 50 /\ 0 <= p[2] /\ p[2] <= 50
      [] shape = "triangle"     -> 0 <= p[1] /\ 0 <= p[2] /\ p[1] + p[2] <= 100
      [] OTHER                  -> FALSE

----------------------------------------------------------------------------
(* Properties of a track that keeps being detected (SpecTM).                *)

\* the track of id is active and was accepted in every frame since the one
\* that created it (frames are one second apart), and the identifier was
\* reported with a confidence above 0.6 all that time
KeptSinceCreation(id) ==
    /\ id \in DOMAIN tm.active_tracks
    /\ tm.active_tracks[id].total_frames = clock - tm.active_tracks[id].first_seen + 1
    /\ scene[id].visible
    /\ scene[id].confidence > NewTrackConfidence

\* C30: a track created by update_trackers whose identifier is then detected
\* in every following frame with a confidence above 0.6 is in active_tracks
\* with occluded = FALSE after every following update; it is never moved to
\* lost_tracks while it keeps being detected.
C30_DetectedTrackStaysActive ==
    [][ \A id \in TMIds :
          (/\ IsFrame
           /\ KeptSinceCreation(id)
           /\ scene'[id].visible
           /\ scene'[id].confidence > NewTrackConfidence)
          => /\ id \in DOMAIN tm'.active_tracks
             /\ id \notin DOMAIN tm'.lost_tracks
             /\ ~ tm'.active_tracks[id].occluded
    ]_vars

\* a track created for a high-confidence detection is in lost_tracks, tagged
\* occluded, one frame later, although the identifier is detected with the
\* same confidence in that frame
LostWhileDetected_Witness ==
    \E id \in TMIds :
      /\ program = "tracker"
      /\ scene[id].visible
      /\ scene[id].confidence > NewTrackConfidence
      /\ id \in DOMAIN tm.lost_tracks
      /\ id \notin DOMAIN tm.active_tracks
      /\ tm.lost_tracks[id].tracker.occluded
      /\ tm.lost_tracks[id].tracker.total_frames = 1
      /\ tm.lost_tracks[id].tracker.first_seen = clock - 1
      /\ tm.lost_tracks[id].lost_frame = tm.current_frame
      /\ Len(tm.detection_history[id]) = 2

\* what the code holds to: an active track whose identifier has at least two
\* retained detections stays active while the identifier is detected with a
\* confidence above 0.6
TrackWithHistoryStaysActive ==
    [][ \A id \in TMIds :
          (/\ IsFrame
           /\ id \in DOMAIN tm.active_tracks
           /\ id \in DOMAIN tm.detection_history
           /\ Len(tm.detection_history[id]) >= 2
           /\ scene'[id].visible
           /\ scene'[id].confidence > NewTrackConfidence)
          => /\ id \in DOMAIN tm'.active_tracks
             /\ ~ tm'.active_tracks[id].occluded
    ]_vars

----------------------------------------------------------------------------
(* Properties of the counters of TrackingManager (SpecTM).                  *)

\* every track ever created is active, lost or counted as lost for good
Conserved(m) ==
    m.total_tracked
        = Cardinality(DOMAIN m.active_tracks) + Cardinality(DOMAIN m.lost_tracks)
            + m.total_lost

\* C31: after every update_trackers call total_tracked = |active_tracks| +
\* |lost_tracks| + total_lost, and neither total_tracked nor total_lost has
\* decreased.
C31_TracksAreConserved ==
    [][ IsFrame =>
          /\ Conserved(tm')
          /\ tm'.total_tracked >= tm.total_tracked
          /\ tm'.total_lost >= tm.total_lost
    ]_vars

\* a track was evicted from the lost set and a second track was created for
\* the same identifier afterwards
C31_Witness ==
    /\ program = "tracker"
    /\ tm.total_lost = 1
    /\ tm.total_tracked = 2
    /\ DOMAIN tm.active_tracks = {1}
    /\ DOMAIN tm.lost_tracks = {}

----------------------------------------------------------------------------
(* Properties of the active and the lost set of TrackingManager (SpecTM).   *)

\* C32: after every update_trackers call no identifier is in both
\* active_tracks and lost_tracks, every track in active_tracks has
\* occluded = FALSE and every track in lost_tracks has occluded = TRUE.
C32_ActiveAndLostAreDisjoint ==
    program = "tracker" =>
        /\ DOMAIN tm.active_tracks \cap DOMAIN tm.lost_tracks = {}
        /\ \A id \in DOMAIN tm.active_tracks : ~ tm.active_tracks[id].occluded
        /\ \A id \in DOMAIN tm.lost_tracks : tm.lost_tracks[id].tracker.occluded

\* a track that had been lost for some frames is active again, not occluded
C32_Witness ==
    /\ program = "tracker"
    /\ 1 \in DOMAIN tm.active_tracks
    /\ 1 \in accepted
    /\ gap[1] >= 3
    /\ tm.total_tracked = 1
    /\ tm.active_tracks[1].total_frames >= 3
    /\ ~ tm.active_tracks[1].occluded

----------------------------------------------------------------------------
(* Properties of the motion state of VehicleTracker (SpecVT).               *)

\* the step is one VehicleTracker.update
IsUpdate == program = "vehicle_tracker" /\ Len(call'.moved) = Len(call.moved) + 1

\* the last k updates all had a displacement of at least the threshold
LastMoving(moved, k) ==
    /\ Len(moved) >= k
    /\ \A i \in (Len(moved) - k + 1)..Len(moved) : moved[i]

\* the last k updates all had a displacement below the threshold
LastStanding(moved, k) ==
    /\ Len(moved) >= k
    /\ \A i \in (Len(moved) - k + 1)..Len(moved) : ~ moved[i]

\* C33: is_moving becomes true only at an update that completes at least 3
\* consecutive updates with a displacement of at least 5 px, and becomes
\* false only at an update that completes at least 15 consecutive updates
\* with a displacement below 5 px; an update whose displacement is on the
\* other side of the threshold than the one before it never changes
\* is_moving; the two consecutive-frame counters are never both non-zero.
C33_MotionHysteresis ==
    [][ IsUpdate =>
          LET t == call.tracker
              u == call'.tracker
              m == call'.moved
              n == Len(call'.moved)
          IN  /\ (~ t.is_moving /\ u.is_moving) => LastMoving(m, MOVING_FRAMES)
              /\ (t.is_moving /\ ~ u.is_moving) => LastStanding(m, STATIONARY_FRAMES)
              /\ (n >= 2 /\ m[n] /= m[n - 1]) => u.is_moving = t.is_moving
              /\ ~ (u.consecutive_moving_frames > 0
                      /\ u.consecutive_stationary_frames > 0)
    ]_vars

\* a track that was moving has come to rest after 15 standing updates
C33_Witness ==
    /\ program = "vehicle_tracker"
    /\ Len(call.moved) = MOVING_FRAMES + STATIONARY_FRAMES
    /\ LastStanding(call.moved, STATIONARY_FRAMES)
    /\ call.moved[1] /\ call.moved[2] /\ call.moved[3]
    /\ ~ call.tracker.is_moving
    /\ call.tracker.stationary_start_time = Some(clock)

\* single moving and standing updates in turn have left is_moving as it was
Alternating_Witness ==
    /\ program = "vehicle_tracker"
    /\ call.moved = <<TRUE, FALSE, TRUE, FALSE>>
    /\ ~ call.tracker.is_moving
    /\ call.tracker.consecutive_moving_frames = 0
    /\ call.tracker.consecutive_stationary_frames = 1

\* C34: after every VehicleTracker.update status is MOVING exactly when
\* is_moving; is_moving implies no stationary_start_time and park_duration
\* 0; status is PARKED only with a stationary_start_time and a park_duration
\* of at least 1.5 s, and a track that is not moving with a shorter or no
\* timer is STOPPED; a moving update that completes fewer than 3 consecutive
\* moving updates leaves a PARKED track PARKED with its
\* stationary_start_time unchanged.
C34_StatusFollowsMotionState ==
    [][ IsUpdate =>
          LET t == call.tracker
              u == call'.tracker
              m == call'.moved
          IN  /\ (u.status = "MOVING") <=> u.is_moving
              /\ u.is_moving => (u.stationary_start_time = None /\ u.park_duration = 0)
              /\ u.status = "PARKED" =>
                    /\ u.stationary_start_time /= None
                    /\ u.park_duration = clock' - Val(u.stationary_start_time)
                    /\ 2 * u.park_duration >= 3
              /\ (/\ ~ u.is_moving
                  /\ \/ u.stationary_start_time = None
                     \/ 2 * (clock' - Val(u.stationary_start_time)) < 3)
                    => u.status = "STOPPED"
              /\ (/\ t.status = "PARKED"
                  /\ m[Len(m)]
                  /\ ~ LastMoving(m, MOVING_FRAMES))
                    => (u.status = "PARKED"
                          /\ u.stationary_start_time = t.stationary_start_time)
    ]_vars

\* a parked track has moved in the last two updates and is still PARKED
C34_Witness ==
    /\ program = "vehicle_tracker"
    /\ call.tracker.status = "PARKED"
    /\ call.tracker.consecutive_moving_frames = 2
    /\ LastMoving(call.moved, 2)
    /\ call.tracker.stationary_start_time /= None
    /\ call.tracker.park_duration >= 4

----------------------------------------------------------------------------
(* Properties of the fields of ParkingSlot (SpecOcc).                       *)

\* the last observation of slot i: the slot before the last update_occupancy
\* and the best overlap that call saw
LastObs(i) == obs[i][Len(obs[i])]

\* C35: in every state a ParkingSlot reaches through update_occupancy,
\* is_occupied holds exactly when occupied_since is non-null and exactly
\* when occupying_vehicle_id is non-null; total_occupancies is at least 1
\* whenever the slot is occupied; total_occupancies and total_duration have
\* not decreased in the last call.
C35_SlotFieldsConsistent ==
    program = "smart_parking_mvp" =>
      \A i \in SlotIx :
        LET slot == mvp.slots[i] IN
        /\ slot.is_occupied <=> slot.occupied_since /= None
        /\ slot.is_occupied <=> slot.occupying_vehicle_id /= None
        /\ slot.is_occupied => slot.total_occupancies >= 1
        /\ Len(obs[i]) >= 1 =>
              /\ slot.total_occupancies >= LastObs(i).before.total_occupancies
              /\ slot.total_duration >= LastObs(i).before.total_duration

\* a slot has been vacated and taken again: it is occupied for the second
\* time and the first stay is in total_duration
C35_Witness ==
    /\ program = "smart_parking_mvp"
    /\ \E i \in SlotIx :
          /\ mvp.slots[i].is_occupied
          /\ mvp.slots[i].occupied_since = Some(clock)
          /\ mvp.slots[i].occupying_vehicle_id /= None
          /\ mvp.slots[i].total_occupancies = 2
          /\ mvp.slots[i].total_duration > 0
          /\ ~ LastObs(i).before.is_occupied
          /\ LastObs(i).before.occupying_vehicle_id = None

\* the best overlap of an observation lies in [0.2, 0.4]
InBand(o) ==
    /\ ~ RatioLT(o.overlap, LeaveThreshold)
    /\ ~ RatioGT(o.overlap, overlap_threshold)

\* C36: a frame whose best overlap for a slot lies in [0.2, 0.4] does not
\* change the slot's is_occupied flag: a vacant slot stays vacant with
\* occupied_frames reset to 0, an occupied slot stays occupied with
\* vacant_frames reset to 0; so the flag never changes while every frame's
\* best overlap lies in the band.
C36_BandKeepsOccupancy ==
    program = "smart_parking_mvp" =>
      \A i \in SlotIx :
        (Len(obs[i]) >= 1 /\ InBand(LastObs(i))) =>
           LET slot == mvp.slots[i]
               was  == LastObs(i).before
           IN  /\ slot.is_occupied = was.is_occupied
               /\ ~ slot.is_occupied => slot.occupied_frames = 0
               /\ slot.is_occupied => slot.vacant_frames = 0

\* two frames in the band, at 0.4 and at 0.2, on a slot that had counted one
\* frame towards parking: the count is back at 0 and the slot is vacant
C36_Witness ==
    /\ program = "smart_parking_mvp"
    /\ \E i \in SlotIx :
          /\ Len(obs[i]) = 2
          /\ obs[i][1].before.occupied_frames = 1
          /\ ~ obs[i][1].before.is_occupied
          /\ obs[i][1].overlap.num * 100 = overlap_threshold * obs[i][1].overlap.den
          /\ obs[i][2].overlap.num * 100 = LeaveThreshold * obs[i][2].overlap.den
          /\ ~ mvp.slots[i].is_occupied
          /\ mvp.slots[i].occupied_frames = 0

\* an occupied slot has kept its state through a frame at 0.2 after a brief
\* drop had counted one vacant frame
BandKeepsOccupied_Witness ==
    /\ program = "smart_parking_mvp"
    /\ \E i \in SlotIx :
          /\ Len(obs[i]) = 2
          /\ obs[i][2].before.is_occupied
          /\ obs[i][2].before.vacant_frames = 1
          /\ obs[i][2].overlap.num * 100 = LeaveThreshold * obs[i][2].overlap.den
          /\ mvp.slots[i].is_occupied
          /\ mvp.slots[i].vacant_frames = 0

----------------------------------------------------------------------------
(* Properties of the occupancy of two disjoint slots (SpecLot).             *)

\* C38: for slots with pairwise disjoint polygons no vehicle identifier is
\* the occupying_vehicle_id of two different slots at the same time.
C38_OneSlotPerVehicle ==
    program = "smart_parking_two_slots" =>
      \A i, j \in DOMAIN mvp.slots :
        (i /= j /\ mvp.slots[i].is_occupied /\ mvp.slots[j].is_occupied)
          => mvp.slots[i].occupying_vehicle_id /= mvp.slots[j].occupying_vehicle_id

\* a vehicle whose box lies across both slots has been recorded as the
\* occupant of both in the same frame
TwoSlotsOneVehicle_Witness ==
    /\ program = "smart_parking_two_slots"
    /\ mvp.frame_count = 2
    /\ mvp.slots[1].is_occupied /\ mvp.slots[2].is_occupied
    /\ mvp.slots[1].occupying_vehicle_id = Some(1)
    /\ mvp.slots[2].occupying_vehicle_id = Some(1)
    /\ mvp.slots[1].occupied_since = Some(clock)
    /\ mvp.slots[2].occupied_since = Some(clock)

\* what the code holds to: a vehicle recorded for two slots at once had, in
\* the frame that recorded it for each, a best overlap of at least 0.2
TwoSlotsNeedOverlapInBoth ==
    program = "smart_parking_two_slots" =>
      \A i, j \in DOMAIN mvp.slots :
        (/\ i /= j
         /\ mvp.slots[i].is_occupied /\ mvp.slots[j].is_occupied
         /\ mvp.slots[i].occupying_vehicle_id = mvp.slots[j].occupying_vehicle_id
         /\ mvp.slots[i].occupied_since = Some(clock))
          => ~ RatioLT(obs[i][Len(obs[i])].overlap, LeaveThreshold)

----------------------------------------------------------------------------
(* Properties of the processing loop of main_automatic (SpecMain).          *)

\* the preset's thresholds differ from the defaults of process_frame
OtherThanDefaults ==
    \/ apd.speed_threshold /= DefaultSpeedThreshold
    \/ apd.time_threshold /= DefaultTimeThreshold

\* C37: in the processing loop run with a preset whose thresholds (S, T)
\* differ from the defaults, a vehicle comes into the reported
\* parked_vehicles only if its measured speed has stayed below S for at
\* least T seconds, and the reported parked_vehicles are those of a loop
\* that classifies with (S, T) only: the default thresholds used inside
\* process_frame play no part in whether or when a vehicle is marked parked.
C37_PresetThresholdsDecide ==
    [][ (program = "main_automatic" /\ clock' = clock + 1 /\ OtherThanDefaults) =>
          /\ \A id \in apd'.parked \ apd.parked :
                /\ id \in DOMAIN apd'.slow_since
                /\ apd'.slow_since[id] /= None
                /\ clock' - Val(apd'.slow_since[id]) >= apd.time_threshold
          /\ apd'.parked = apd'.alone_parked
    ]_vars

\* with the preset accurate (5 px/s, 8 s) the standing vehicle is reported
\* parked 5 seconds after its speed was first measured
ParkedByDefaults_Witness ==
    /\ program = "main_automatic"
    /\ apd.preset = "accurate"
    /\ 1 \in apd.parked
    /\ 1 \notin apd.alone_parked
    /\ apd.slow_since[1] = Some(clock - DefaultTimeThreshold)
    /\ tracked_vehicles[1].is_parked

\* with the preset fast (10 px/s, 3 s) the standing vehicle is reported
\* parked 3 seconds after its speed was first measured
ParkedByPreset_Witness ==
    /\ program = "main_automatic"
    /\ apd.preset = "fast"
    /\ 1 \in apd.parked
    /\ 1 \in apd.alone_parked
    /\ apd.slow_since[1] = Some(clock - 3)

----------------------------------------------------------------------------
(* Properties of DetectionStabilizer.update (SpecStab).                     *)

\* the step is one DetectionStabilizer.update
IsStabUpdate == program = "detection_stabilizer" /\ call'.ret /= call.ret

\* the last k observations of a slot all have the value b
LastAll(seen, k, b) ==
    /\ Len(seen) >= k
    /\ \A i \in (Len(seen) - k + 1)..Len(seen) : seen[i] = b

\* C39: update returns should_update = TRUE for a slot only when the last
\* min_consecutive_frames observations of that slot all have the same value,
\* which it returns as new_status, and at least debounce_time has passed
\* since the previous should_update = TRUE for the same slot; with fewer
\* observations, or with mixed recent observations, it returns FALSE.
C39_UpdateOnlyWhenStableAndDebounced ==
    [][ IsStabUpdate =>
          LET r    == Val(call'.ret)
              seen == call'.seen[r.slot_id]
              prev == call.last_true[r.slot_id]
          IN  /\ r.should_update =>
                    /\ LastAll(seen, StabFrames, r.new_status)
                    /\ prev /= None => r.t - Val(prev) >= StabDebounce
              /\ ~ (LastAll(seen, StabFrames, TRUE) \/ LastAll(seen, StabFrames, FALSE))
                    => ~ r.should_update
    ]_vars

\* a slot that was reported occupied is reported vacant after three
\* observations without a vehicle, and an update half a second after a
\* should_update = TRUE of the same slot was held back
C39_Witness ==
    /\ program = "detection_stabilizer"
    /\ call.ret /= None
    /\ Val(call.ret).slot_id = 1
    /\ Val(call.ret).should_update
    /\ ~ Val(call.ret).new_status
    /\ call.seen[1] = <<TRUE, TRUE, TRUE, TRUE, FALSE, FALSE, FALSE>>
    /\ call.seen[2] = << >>

\* an update with three equal observations was held back by the debounce
\* time
HeldBack_Witness ==
    /\ program = "detection_stabilizer"
    /\ call.ret /= None
    /\ ~ Val(call.ret).should_update
    /\ call.seen[Val(call.ret).slot_id] = <<TRUE, TRUE, TRUE, TRUE>>
    /\ call.last_true[Val(call.ret).slot_id] = Some(Val(call.ret).t - 1)

----------------------------------------------------------------------------
(* Properties of TrackingManager.reset (SpecReset).                         *)

\* C40: after reset() the manager handles every following sequence of
\* detections as a newly constructed TrackingManager does: after each frame
\* the active set, the lost set and the counters of the two are equal.
C40_ResetIsLikeNew ==
    (program = "tracker_reset" /\ call.fresh /= None) =>
        /\ tm.active_tracks = Val(call.fresh).active_tracks
        /\ tm.lost_tracks = Val(call.fresh).lost_tracks
        /\ tm.total_tracked = Val(call.fresh).total_tracked
        /\ tm.total_lost = Val(call.fresh).total_lost
        /\ tm.current_frame = Val(call.fresh).current_frame

\* an identifier seen once before the reset is detected again right after
\* it: the new manager tracks it, the reset manager does not
ResetKeepsHistory_Witness ==
    /\ program = "tracker_reset"
    /\ call.fresh /= None
    /\ call.frames = 2
    /\ tm.current_frame = 1
    /\ DOMAIN Val(call.fresh).active_tracks = {1}
    /\ DOMAIN tm.active_tracks = {}
    /\ Len(tm.detection_history[1]) = 2
    /\ Len(Val(call.fresh).detection_history[1]) = 1

\* what the code holds to: reset() leaves the manager as a new one except
\* for the detection history of its stability filter
ResetClearsAllButHistory ==
    [][ (program = "tracker_reset" /\ call.fresh = None /\ call'.fresh /= None) =>
          /\ [tm' EXCEPT !.detection_history = << >>] = NewTrackingManager
          /\ tm'.detection_history = tm.detection_history
    ]_vars

====
